---- MODULE Spec2Model ----
(***************************************************************************)
(* A model of the unistore storage engine facade (engine/engine.go): the   *)
(* shard map, shard loading, the write batch, snapshot reads, shard        *)
(* removal through the epoch reclaimer and the flush trigger.              *)
(*                                                                         *)
(* Go pointers are modelled as indices into heaps that only grow: a heap   *)
(* is a sequence, an object's address is its index.  A published slice     *)
(* (memTables, l0Tables) is a heap object of its own, so that capturing    *)
(* the pointer and later seeing the pointee change can be told apart.      *)
(***************************************************************************)
EXTENDS Integers, Sequences, FiniteSets, TLC

(***************************************************************************)
(* Bounds of the model.                                                    *)
(***************************************************************************)
NumKeys == 2
MaxVersion == 2
MaxWrites == 2
MaxSnaps == 2
MaxLoads == 2
MaxEpoch == 2
MaxRemoves == 1
MaxCompactions == 1
MaxTriggers == 1
\* opt.MaxMemTableSize and opt.NumMemtables, in entries and in tasks
MaxMemTableSize == 2
NumMemtables == 2

Keys == 1..NumKeys
Versions == 0..MaxVersion
\* math.MaxUint64 for the model's versions: above every version in use
MaxUint64 == MaxVersion + 1

\* opt.CFs: CF 0 is managed, CF 1 is not
CFs == {0, 1}
cfConfs == [cf \in CFs |-> [Managed |-> (cf = 0)]]
\* levels 1..N of each CF
Levels == {1, 2}

Nil == 0

VARIABLES
  shardMap,       \* en.shardMap: shard ID -> address of the *Shard, or Nil
  shards,         \* heap of Shard objects
  memTbls,        \* heap of memtable.Table objects
  memSlices,      \* heap of memTables structs: each a slice of memtable addresses
  l0Slices,       \* heap of l0Tables structs: each a slice of table addresses
  tbls,           \* heap of opened sstable.Table / L0Table handles
  snaps,          \* heap of SnapAccess objects
  guards,         \* heap of epoch guards handed out by resourceMgr.Acquire
  epoch,          \* the reclaimer's global epoch
  resources,      \* deletions queued on the reclaimer, in the order queued
  flushCh,        \* en.flushCh
  flushResultCh,  \* en.flushResultCh
  tf,             \* the TriggerFlush call in progress, or Nil
  count,          \* how many calls of each bounded kind were made so far
  wlog,           \* history: per shard object, the entries applied, in order
  snapHist,       \* history: per SnapAccess, what the shard held when it was created
  removed,        \* history: per RemoveShard of a loaded shard, what was held then
  wb,             \* a WriteBatch a caller is filling
  wbRet,          \* history: the last call on wb, what it returned and wb before it
  wbTwin,         \* a batch created at the last Reset of wb and given the same calls since
  flushLog,       \* history: every task sent on flushCh, in the order sent
  trigLog,        \* history: every TriggerFlush call, what it read and what it decided
  published,      \* history: every flush result applied, in the order applied
  eng,            \* per Engine: where OpenEngine or Close stands, its options, its tasks
  dirLock,        \* the LOCK file of the data directory: the engine that holds it, or Nil
  panics,         \* the goroutines that have sent on a closed channel
  rsRet,          \* history: the last RemoveShard call, what it found and what it returned
  latest,         \* localIDAllocator.latest
  allocLog,       \* history: every AllocID call, its count and what it returned
  cwb,            \* a customWriteBatch: the type and the entries of its builder
  cwbLog,         \* history: every operation called on cwb, in order
  ns,             \* the NewSnapAccess call between its two loads
  fr,             \* the result worker between the two stores of a publication
  cb,             \* the Callback of a raft command and what its responder has done
  wr,             \* the engineWriter call that sent the command
  ls,             \* a loadShards call: its batches, its shard map, what its tasks did
  ts,             \* the timestamp state of GetTS, the clock, and the timestamps issued
  gc,             \* MockPD's GC safe point and the UpdateGCSafePoint calls
  rm              \* MockRegionManager: its regions, its id allocator, its split calls

heapVars == <<shards, memTbls, memSlices, l0Slices, tbls>>
snapVars == <<snaps, snapHist>>
epochVars == <<guards, epoch, resources>>
batchVars == <<wb, wbRet, wbTwin>>
raceVars == <<ns, fr>>
raftVars == <<cb, wr>>
auxVars == <<raftVars, ls, ts, gc, rm>>
callVars == <<rsRet, latest, allocLog, cwb, cwbLog, raceVars, auxVars>>
pipeHist == <<flushLog, trigLog, published>>
lifeVars == <<eng, dirLock, panics>>
restVars == <<batchVars, callVars, pipeHist, lifeVars>>
histVars == <<wlog, removed, restVars>>
flushVars == <<flushCh, flushResultCh, tf>>
vars == <<shardMap, heapVars, snapVars, epochVars, flushVars, count, histVars>>

(***************************************************************************)
(* y.ValueStruct and table.BitDelete                                       *)
(***************************************************************************)
BitDelete == "BitDelete"
NoMeta == "NoMeta"
\* y.ValueStruct{}: what a source returns on a miss
EmptyValue == [Meta |-> NoMeta, UserMeta |-> Nil, Version |-> 0, Value |-> Nil, valid |-> FALSE]
\* a value a caller hands to WriteBatch.Put
PutValue(version, val) ==
  [Meta |-> NoMeta, UserMeta |-> 0 - val, Version |-> version, Value |-> val, valid |-> TRUE]
\* the value WriteBatch.Delete builds: y.ValueStruct{Meta: table.BitDelete, Version: version}
DeleteValue(version) ==
  [Meta |-> BitDelete, UserMeta |-> Nil, Version |-> version, Value |-> Nil, valid |-> TRUE]
Valid(vs) == vs.valid
IsDeleted(meta) == meta = BitDelete

Max(S) == CHOOSE x \in S : \A y \in S : y <= x
Min(S) == CHOOSE x \in S : \A y \in S : x <= y
Range(f) == {f[i] : i \in DOMAIN f}

(***************************************************************************)
(* A sorted run of one CF (a skiplist of a memtable, a sub-table of an L0  *)
(* table, an SSTable) is a set of entries [cf, key, vs] with at most one   *)
(* entry per (cf, key, version).                                           *)
(***************************************************************************)
\* skiplist.Put: insert, or overwrite the entry with the same (key, version)
SklPut(data, cf, key, vs) ==
  {e \in data : ~(e.cf = cf /\ e.key = key /\ e.vs.Version = vs.Version)}
    \cup {[cf |-> cf, key |-> key, vs |-> vs]}

\* the newest entry of (cf, key) with version <= version, or the empty value
RunGet(data, cf, key, version) ==
  LET c == {e \in data : e.cf = cf /\ e.key = key /\ e.vs.Version <= version}
  IN IF c = {} THEN EmptyValue
     ELSE (CHOOSE e \in c : \A f \in c : f.vs.Version <= e.vs.Version).vs

\* memtable.Table.Get / GetWithHint (the hint only speeds the seek up)
TableGet(m, cf, key, version) == RunGet(memTbls[m].data, cf, key, version)

\* memtable.Table.Empty
TableEmpty(m) == memTbls[m].data = {}

\* memtable.NewCFTable
NewCFTable == [data |-> {}, version |-> 0, size |-> 0, freed |-> FALSE]

\* L0Table.Get: the CF's sub-table only
L0Get(t, cf, key, version) == RunGet(tbls[t].data, cf, key, version)

\* levelHandler.get: the first table whose biggest key is >= key, and that one only
LevelCandidate(tables, key) ==
  LET idx == {i \in 1..Len(tables) : tbls[tables[i]].biggest >= key}
  IN IF idx = {} THEN Nil ELSE tables[Min(idx)]

LevelGet(tables, cf, key, version) ==
  LET t == LevelCandidate(tables, key)
  IN IF t = Nil THEN EmptyValue ELSE RunGet(tbls[t].data, cf, key, version)

(***************************************************************************)
(* Shard accessors                                                         *)
(***************************************************************************)
SplitKeys == <<NumKeys>>

StageInitial == "INITIAL"
StagePreSplit == "PRE_SPLIT"
StageSplitFileDone == "SPLIT_FILE_DONE"
StageSplitDone == "SPLIT_DONE"

\* Shard.loadMemTables / loadL0Tables: the slice the shard's pointer names now
loadMemTables(o) == memSlices[shards[o].memTbls]
loadL0Tables(o) == l0Slices[shards[o].l0Tbls]
\* shardCF.getLevelHandler(level): the level handler installed now
getLevelHandler(o, cf, level) == shards[o].cfs[cf][level]
\* Shard.isSplitting
isSplitting(o) == shards[o].splitStage \in {StagePreSplit, StageSplitFileDone}
\* Shard.getSplittingIndex: the child a key falls into (0-based)
getSplittingIndex(key) == Cardinality({i \in 1..Len(SplitKeys) : SplitKeys[i] <= key})

(***************************************************************************)
(* SnapAccess.getValue.  Beside the value it returns, the operators keep   *)
(* the list of sources consulted, in the order they were consulted.        *)
(***************************************************************************)
Src(kind, pos, id) == [kind |-> kind, pos |-> pos, id |-> id]
Hit(v, src) == [v |-> v, probes |-> <<src>>]
Miss == [v |-> EmptyValue, probes |-> <<>>]
After(src, r) == [v |-> r.v, probes |-> <<src>> \o r.probes]

\* for i := 1; i <= len(scf.levels); i++ { ... }
RECURSIVE probeLevels(_, _, _, _, _)
probeLevels(o, i, cf, key, version) ==
  IF i > Cardinality(Levels) THEN Miss
  ELSE LET tables == getLevelHandler(o, cf, i)
           src == Src("level", i, LevelCandidate(tables, key))
           v == LevelGet(tables, cf, key, version)
       IN IF Len(tables) = 0 THEN probeLevels(o, i + 1, cf, key, version)
          ELSE IF Valid(v) THEN Hit(v, src)
          ELSE After(src, probeLevels(o, i + 1, cf, key, version))

\* for _, tbl := range s.l0Tables.tables { ... }, then the levels
RECURSIVE probeL0Tables(_, _, _, _, _, _)
probeL0Tables(o, tables, i, cf, key, version) ==
  IF i > Len(tables) THEN probeLevels(o, 1, cf, key, version)
  ELSE LET src == Src("l0", i - 1, tables[i])
           v == L0Get(tables[i], cf, key, version)
       IN IF Valid(v) THEN Hit(v, src)
          ELSE After(src, probeL0Tables(o, tables, i + 1, cf, key, version))

\* for i, memTbl := range s.memTables.tables { ... }, then the L0 tables
RECURSIVE probeMemTables(_, _, _, _, _, _)
probeMemTables(s, tables, i, cf, key, version) ==
  IF i > Len(tables)
  THEN probeL0Tables(s.shard, l0Slices[s.l0Tables], 1, cf, key, version)
  ELSE LET src == Src("mem", i - 1, tables[i])
           v == TableGet(tables[i], cf, key, version)
       IN IF Valid(v) THEN Hit(v, src)
          ELSE After(src, probeMemTables(s, tables, i + 1, cf, key, version))

\* a getValue whose memtable loop starts one element late
getValueSkipsActive(s, cf, key, version) ==
  probeMemTables(s, memSlices[s.memTables], 2, cf, key, version)

\* SnapAccess.getValue; s is the SnapAccess, s.splitting = <<>> stands for nil
getValue(s, cf, key, version) ==
  LET rest == probeMemTables(s, memSlices[s.memTables], 1, cf, key, version)
  IN IF s.splitting # <<>>
     THEN LET idx == getSplittingIndex(key)
              src == Src("splitting", idx, s.splitting[idx + 1])
              v == TableGet(s.splitting[idx + 1], cf, key, version)
          IN IF Valid(v) THEN Hit(v, src) ELSE After(src, rest)
     ELSE rest

NoErr == "nil"
ErrKeyNotFound == "ErrKeyNotFound"
NoItem == [key |-> Nil, ver |-> 0, meta |-> NoMeta, userMeta |-> Nil, val |-> Nil]

\* a Get that hands a tombstone out as an item
GetResultOfTombstone(s, cf, key, version) ==
  LET ver == IF version = 0 THEN MaxUint64 ELSE version
      r == getValue(s, cf, key, ver)
      vs == r.v
  IN IF ~Valid(vs) THEN [item |-> NoItem, err |-> ErrKeyNotFound, vs |-> vs, probes |-> r.probes]
     ELSE [item |-> [key |-> key, ver |-> vs.Version, meta |-> vs.Meta,
                     userMeta |-> vs.UserMeta, val |-> vs.Value],
           err |-> NoErr, vs |-> vs, probes |-> r.probes]

\* SnapAccess.Get: the (item, err) pair it returns, with the probes of getValue
GetResult(s, cf, key, version) ==
  LET ver == IF version = 0 THEN MaxUint64 ELSE version
      r == getValue(s, cf, key, ver)
      vs == r.v
  IN IF ~Valid(vs) THEN [item |-> NoItem, err |-> ErrKeyNotFound, vs |-> vs, probes |-> r.probes]
     ELSE IF IsDeleted(vs.Meta)
     THEN [item |-> NoItem, err |-> ErrKeyNotFound, vs |-> vs, probes |-> r.probes]
     ELSE [item |-> [key |-> key, ver |-> vs.Version, meta |-> vs.Meta,
                     userMeta |-> vs.UserMeta, val |-> vs.Value],
           err |-> NoErr, vs |-> vs, probes |-> r.probes]

(***************************************************************************)
(* The shard metas the meta reader hands to loadShard, and the files they  *)
(* name.  A file with cf = -1 is an L0 file.                               *)
(***************************************************************************)
ShardIDs == {1}
ShardVers == {1, 2}
L0File == -1

Entry(cf, key, vs) == [cf |-> cf, key |-> key, vs |-> vs]

FileIDs == {1, 2, 3, 4}
FileMeta(fid) ==
  CASE fid = 1 -> [cf |-> L0File, level |-> 0, commitTS |-> 2, smallest |-> 1, biggest |-> 1,
                   data |-> {Entry(0, 1, PutValue(2, 11))}]
    [] fid = 2 -> [cf |-> 0, level |-> 1, commitTS |-> 0, smallest |-> 1, biggest |-> 1,
                   data |-> {Entry(0, 1, PutValue(1, 12))}]
    [] fid = 3 -> [cf |-> 0, level |-> 2, commitTS |-> 0, smallest |-> 1, biggest |-> NumKeys,
                   data |-> {Entry(0, 1, PutValue(1, 13)), Entry(0, NumKeys, PutValue(1, 14))}]
    [] fid = 4 -> [cf |-> L0File, level |-> 0, commitTS |-> 1, smallest |-> NumKeys, biggest |-> NumKeys,
                   data |-> {Entry(1, NumKeys, PutValue(0, 15))}]
    \* a second table of level 1 of CF 0, right of file 2
    [] OTHER -> [cf |-> 0, level |-> 1, commitTS |-> 0, smallest |-> NumKeys, biggest |-> NumKeys,
                 data |-> {Entry(0, NumKeys, PutValue(1, 16))}]

\* the entries of the files in the order they were once written, oldest first
FileHistory ==
  <<Entry(0, 1, PutValue(1, 13)), Entry(0, NumKeys, PutValue(1, 14)),
    Entry(0, 1, PutValue(1, 12)), Entry(1, NumKeys, PutValue(0, 15)),
    Entry(0, 1, PutValue(2, 11))>>

\* the meta of a shard that was created and never flushed names no file
FreshVer == Min(ShardVers) - 1
\* a meta whose level 1 of CF 0 holds two tables
WideVer == Max(ShardVers) + 1
WideFiles == (FileIDs \ {f \in FileIDs : FileMeta(f).level = Max(Levels)}) \cup {Max(FileIDs) + 1}
WideHistory ==
  <<Entry(0, 1, PutValue(1, 12)), Entry(0, NumKeys, PutValue(1, 16)),
    Entry(1, NumKeys, PutValue(0, 15)), Entry(0, 1, PutValue(2, 11))>>
ShardMeta(ver) ==
  [ID |-> Min(ShardIDs), Ver |-> ver,
   files |-> IF ver = FreshVer THEN {} ELSE IF ver = WideVer THEN WideFiles ELSE FileIDs]
\* the orders in which a range over a map of these file ids may visit them
Orders(files) ==
  {f \in [1..Cardinality(files) -> files] : \A i, j \in DOMAIN f : i # j => f[i] # f[j]}

\* an opened table handle
OpenTable(fid, o) ==
  [fid |-> fid, cf |-> FileMeta(fid).cf, level |-> FileMeta(fid).level,
   commitTS |-> FileMeta(fid).commitTS, smallest |-> FileMeta(fid).smallest,
   biggest |-> FileMeta(fid).biggest, data |-> FileMeta(fid).data,
   shard |-> o, state |-> "open", by |-> "nobody"]

\* the ids of a set, in ascending order
RECURSIVE Ascending(_)
Ascending(S) == IF S = {} THEN <<>> ELSE <<Min(S)>> \o Ascending(S \ {Min(S)})

\* the L0 tables left in the order they were appended
SortByCommitTSSkipped(heap, S) == Ascending(S)

\* sort.Slice(l0Tbls.tables, CommitTS descending), on table addresses
RECURSIVE SortByCommitTS(_, _)
SortByCommitTS(heap, S) ==
  IF S = {} THEN <<>>
  ELSE LET t == CHOOSE x \in S : \A y \in S : heap[y].commitTS <= heap[x].commitTS
       IN <<t>> \o SortByCommitTS(heap, S \ {t})

\* sortTables(handler.tables): by smallest key, on table addresses
RECURSIVE sortTables(_, _)
sortTables(heap, S) ==
  IF S = {} THEN <<>>
  ELSE LET t == CHOOSE x \in S : \A y \in S : heap[x].smallest <= heap[y].smallest
       IN <<t>> \o sortTables(heap, S \ {t})

\* Table.Close / Table.Delete on a set of handles, by whom
CloseTables(heap, S, how, who) ==
  [t \in DOMAIN heap |->
     IF t \in S /\ heap[t].state = "open"
     THEN [heap[t] EXCEPT !.state = how, !.by = who] ELSE heap[t]]

\* shard.foreachLevel: every table of every level of every CF
LevelTables(o) ==
  UNION {Range(shards[o].cfs[cf][l]) : cf \in CFs, l \in Levels}
ShardTables(o) == Range(loadL0Tables(o)) \cup LevelTables(o)

(***************************************************************************)
(* Engine.loadShard                                                        *)
(***************************************************************************)
\* fids is the order in which the range over shardInfo.files visits the files
loadShardIn(ver, fids) ==
  LET info == ShardMeta(ver)
      oldVal == shardMap[info.ID]
      o == Len(shards) + 1
      base == Len(tbls)
      opened == [i \in 1..Len(fids) |-> OpenTable(fids[i], o)]
      \* the old shard's tables are closed in place
      closed == IF oldVal # Nil
                THEN CloseTables(tbls, ShardTables(oldVal), "closed", "loadShard")
                ELSE tbls
      heap == closed \o opened
      new == (base + 1)..(base + Len(fids))
      l0 == {t \in new : heap[t].cf = L0File}
      shard == [ID |-> info.ID, Ver |-> info.Ver,
                memTbls |-> Len(memSlices) + 1,
                l0Tbls |-> Len(l0Slices) + 1,
                cfs |-> [cf \in CFs |-> [l \in Levels |->
                          sortTables(heap, {t \in new : heap[t].cf = cf /\ heap[t].level = l})]],
                splittingMemTbls |-> <<>>, splitStage |-> StageInitial,
                passive |-> FALSE, initialFlushed |-> FALSE,
                commitTS |-> Max({heap[t].commitTS : t \in new} \cup {0})]
  IN /\ count.loads < MaxLoads
     /\ IF oldVal # Nil /\ shards[oldVal].Ver = info.Ver
        THEN UNCHANGED <<shardMap, heapVars, wlog, count>>
        ELSE /\ count' = [count EXCEPT !.loads = @ + 1]
             /\ tbls' = heap
             /\ memTbls' = Append(memTbls, NewCFTable)
             /\ memSlices' = Append(memSlices, <<Len(memTbls) + 1>>)
             /\ l0Slices' = Append(l0Slices, SortByCommitTS(heap, l0))
             /\ shards' = Append(shards, shard)
             /\ shardMap' = [shardMap EXCEPT ![info.ID] = o]
             /\ wlog' = Append(wlog, IF info.files = {} THEN <<>>
                                     ELSE IF info.files = WideFiles THEN WideHistory
                                     ELSE FileHistory)
     /\ UNCHANGED <<snapVars, epochVars, flushVars, removed, restVars>>

\* loadShard when the range visits the files in ascending order of their ids
loadShard(ver) == loadShardIn(ver, Ascending(ShardMeta(ver).files))

\* a version rule that forgets the unmanaged CFs
checkVersionOfManaged(cf, version) ==
  IF cfConfs[cf].Managed /\ version = 0 THEN "version is zero for managed CF" ELSE NoErr

(***************************************************************************)
(* The version rule of WriteBatch.Put and WriteBatch.Delete: the error     *)
(* returned for (cf, version), NoErr when the operation is accepted.       *)
(***************************************************************************)
checkVersion(cf, version) ==
  IF cfConfs[cf].Managed
  THEN IF version = 0 THEN "version is zero for managed CF" ELSE NoErr
  ELSE IF version # 0 THEN "version is not zero for non-managed CF" ELSE NoErr

(***************************************************************************)
(* The life of an engine: OpenEngine, the background tasks it starts, and  *)
(* Engine.Close.  Two engines may be opened on the one data directory; the *)
(* shards and the channels of the model are those of the first, the other  *)
(* serves no shard and its channels stay empty.                            *)
(***************************************************************************)
Engines == {1, 2}
TheEngine == Min(Engines)

\* Options, as far as OpenEngine and Close read them; a string option is
\* TRUE when it is not ""
Options == [KeyID : BOOLEAN, EndPoint : BOOLEAN, DoNotCompact : BOOLEAN]
DefaultOptions == [KeyID |-> FALSE, EndPoint |-> FALSE, DoNotCompact |-> FALSE]

\* the goroutines a closer of the closers struct answers for
CloserOf(task) ==
  CASE task \in {"runFlushMemTable", "runFlushResult"} -> "memtable"
    [] task = "runCompactionLoop" -> "compactors"
    [] task = "resourceManager" -> "resourceManager"
    [] task = "s3Client" -> "s3Client"

\* no engine yet
NoEngine ==
  [pc |-> "none", opt |-> DefaultOptions, err |-> "", closed |-> 0, chClosed |-> {},
   started |-> {}, running |-> {}, signalled |-> {}, joined |-> <<>>, k |-> 0, closedAt |-> 0]

\* the tasks OpenEngine starts once the engine struct is built
BuiltTasks(opt) == {"resourceManager"} \cup (IF opt.KeyID THEN {"s3Client"} ELSE {})
\* the goroutines OpenEngine starts last
Workers(opt) ==
  {"runFlushMemTable", "runFlushResult"}
    \cup (IF opt.DoNotCompact THEN {} ELSE {"runCompactionLoop"})

\* the engine OpenEngine returns
OpenedEngine(opt) ==
  [NoEngine EXCEPT !.pc = "open", !.opt = opt,
                   !.started = BuiltTasks(opt) \cup Workers(opt),
                   !.running = BuiltTasks(opt) \cup Workers(opt)]

\* a panic ends the process
Alive == panics = {}
FlushChClosed == "flushCh" \in eng[TheEngine].chClosed
FlushResultChClosed == "flushResultCh" \in eng[TheEngine].chClosed
\* what a channel of engine e holds
ChanOf(e, ch) ==
  IF e # TheEngine THEN <<>> ELSE IF ch = "flushCh" THEN flushCh ELSE flushResultCh

dataVars ==
  <<shardMap, heapVars, snapVars, epochVars, flushVars, count, wlog, removed, batchVars, callVars,
    pipeHist>>

\* the deferred function of OpenEngine that keeps the lock
releaseOnErrorNever(err) == dirLock

\* the deferred function of OpenEngine: if err != nil { dirLockGuard.release() }
releaseOnError(err) == IF err # "" THEN Nil ELSE dirLock

\* checkOptions and acquireDirectoryLock; both return before anything is held
OpenEngineLock(e, opt, optionsOK) ==
  /\ Alive
  /\ eng[e].pc = "none"
  /\ IF ~optionsOK
     THEN /\ eng' = [eng EXCEPT ![e].pc = "failed", ![e].opt = opt, ![e].err = "options"]
          /\ UNCHANGED dirLock
     ELSE IF dirLock # Nil
     THEN /\ eng' = [eng EXCEPT ![e].pc = "failed", ![e].opt = opt, ![e].err = "lock"]
          /\ UNCHANGED dirLock
     ELSE /\ eng' = [eng EXCEPT ![e].pc = "locked", ![e].opt = opt]
          /\ dirLock' = e
  /\ UNCHANGED <<dataVars, panics>>

\* createCache, the Engine struct with its channels, the resource manager and
\* the S3 client
OpenEngineBuild(e, cacheOK) ==
  /\ Alive
  /\ eng[e].pc = "locked"
  /\ IF ~cacheOK
     THEN /\ eng' = [eng EXCEPT ![e].pc = "failed", ![e].err = "cache"]
          /\ dirLock' = releaseOnError("cache")
     ELSE /\ eng' = [eng EXCEPT ![e].pc = "built",
                                ![e].started = BuiltTasks(eng[e].opt),
                                ![e].running = BuiltTasks(eng[e].opt)]
          /\ dirLock' = releaseOnError("")
  /\ UNCHANGED <<dataVars, panics>>

\* readMetas and loadShards (the meta reader names no shard), then the
\* flush workers and the compaction loop
OpenEngineLoad(e, metasOK) ==
  /\ Alive
  /\ eng[e].pc = "built"
  /\ IF ~metasOK
     THEN /\ eng' = [eng EXCEPT ![e].pc = "failed", ![e].err = "metas"]
          /\ dirLock' = releaseOnError("metas")
     ELSE /\ eng' = [eng EXCEPT ![e].pc = "open",
                                ![e].started = @ \cup Workers(eng[e].opt),
                                ![e].running = @ \cup Workers(eng[e].opt)]
          /\ dirLock' = releaseOnError("")
  /\ UNCHANGED <<dataVars, panics>>

\* the closers Close signals and waits for, in its order
JoinPlan(opt) ==
  <<"memtable">>
    \o (IF ~opt.DoNotCompact THEN <<"compactors">> ELSE <<>>)
    \o <<"resourceManager">>
    \o (IF opt.EndPoint THEN <<"s3Client">> ELSE <<>>)

\* atomic.StoreUint32(&en.closed, 1)
CloseStore(e) ==
  /\ Alive
  /\ eng[e].pc = "open"
  /\ eng' = [eng EXCEPT ![e].pc = "close flushCh", ![e].closed = 1,
                        ![e].closedAt = Len(flushLog)]
  /\ UNCHANGED <<dataVars, dirLock, panics>>

\* close(en.flushCh)
CloseFlushCh(e) ==
  /\ Alive
  /\ eng[e].pc = "close flushCh"
  /\ eng' = [eng EXCEPT ![e].pc = "close flushResultCh", ![e].chClosed = @ \cup {"flushCh"}]
  /\ UNCHANGED <<dataVars, dirLock, panics>>

\* close(en.flushResultCh)
CloseFlushResultCh(e) ==
  /\ Alive
  /\ eng[e].pc = "close flushResultCh"
  /\ eng' = [eng EXCEPT ![e].pc = "signal", ![e].k = 1,
                        ![e].chClosed = @ \cup {"flushResultCh"}]
  /\ UNCHANGED <<dataVars, dirLock, panics>>

\* SignalAndWait of the next closer: the signal
CloseSignal(e) ==
  /\ Alive
  /\ eng[e].pc = "signal"
  /\ eng' = [eng EXCEPT ![e].pc = "wait",
                        ![e].signalled = @ \cup {JoinPlan(eng[e].opt)[eng[e].k]}]
  /\ UNCHANGED <<dataVars, dirLock, panics>>

\* SignalAndWait of the next closer: the wait, until its goroutines are done
CloseWait(e) ==
  LET closer == JoinPlan(eng[e].opt)[eng[e].k]
  IN /\ Alive
     /\ eng[e].pc = "wait"
     /\ \A t \in eng[e].running : CloserOf(t) # closer
     /\ eng' = [eng EXCEPT ![e].joined = Append(@, closer),
                           ![e].k = @ + 1,
                           ![e].pc = IF eng[e].k < Len(JoinPlan(eng[e].opt))
                                     THEN "signal" ELSE "release"]
     /\ UNCHANGED <<dataVars, dirLock, panics>>

\* return en.dirLock.release()
CloseRelease(e) ==
  /\ Alive
  /\ eng[e].pc = "release"
  /\ eng' = [eng EXCEPT ![e].pc = "closed"]
  /\ dirLock' = Nil
  /\ UNCHANGED <<dataVars, panics>>

\* a background task returns: a flush worker when its channel is closed and
\* drained, any other task when its closer is signalled
TaskExit(e, task) ==
  /\ Alive
  /\ task \in eng[e].running
  /\ CASE task = "runFlushMemTable" ->
            "flushCh" \in eng[e].chClosed /\ ChanOf(e, "flushCh") = <<>>
       [] task = "runFlushResult" ->
            "flushResultCh" \in eng[e].chClosed /\ ChanOf(e, "flushResultCh") = <<>>
       [] OTHER -> CloserOf(task) \in eng[e].signalled
  /\ eng' = [eng EXCEPT ![e].running = @ \ {task}]
  /\ UNCHANGED <<dataVars, dirLock, panics>>

(***************************************************************************)
(* Write admission: a batch of one accepted entry is applied to the shard. *)
(* The entry goes to the splitting memtable of its key while the shard is  *)
(* splitting, to the active memtable otherwise; when the active memtable   *)
(* has reached MaxMemTableSize it is rotated: sealed with a fresh commit   *)
(* version, a new slice [fresh, oldActive, ...] is published and the old   *)
(* active memtable is sent on flushCh.                                     *)
(***************************************************************************)
EntrySizes == {1, MaxMemTableSize}

\* Shard.allocCommitTS
allocCommitTS(o) == shards[o].commitTS + 1

Write(o, cf, key, vs, size) ==
  LET active == loadMemTables(o)[1]
      target == IF isSplitting(o)
                THEN shards[o].splittingMemTbls[getSplittingIndex(key) + 1]
                ELSE active
      put == [memTbls EXCEPT ![target].data = SklPut(@, cf, key, vs),
                             ![target].size = @ + size]
      fresh == Len(memTbls) + 1
  IN /\ count.writes < MaxWrites
     /\ Alive /\ eng[TheEngine].closed = 0
     /\ shardMap[shards[o].ID] = o
     /\ ~shards[o].passive
     /\ checkVersion(cf, vs.Version) = NoErr
     /\ count' = [count EXCEPT !.writes = @ + 1]
     /\ wlog' = [wlog EXCEPT ![o] = Append(@, Entry(cf, key, vs))]
     /\ IF put[active].size >= MaxMemTableSize
        THEN /\ Len(flushCh) < NumMemtables
             /\ memTbls' = Append([put EXCEPT ![active].version = allocCommitTS(o)], NewCFTable)
             /\ memSlices' = Append(memSlices, <<fresh>> \o loadMemTables(o))
             /\ shards' = [shards EXCEPT ![o].memTbls = Len(memSlices) + 1,
                                         ![o].commitTS = allocCommitTS(o)]
             /\ flushCh' = Append(flushCh, [shard |-> o, tbl |-> active])
             /\ flushLog' = Append(flushLog, [shard |-> o, tbl |-> active, call |-> 0])
        ELSE /\ memTbls' = put
             /\ UNCHANGED <<memSlices, shards, flushCh, flushLog>>
     /\ UNCHANGED <<shardMap, l0Slices, tbls, snapVars, epochVars, flushResultCh, tf, removed,
                    batchVars, callVars, trigLog, published, lifeVars>>

\* Initial -> PreSplit: one splitting memtable per child
PreSplit(o) ==
  LET n == Len(SplitKeys) + 1
  IN /\ shardMap[shards[o].ID] = o
     /\ shards[o].splitStage = StageInitial
     /\ memTbls' = memTbls \o [i \in 1..n |-> NewCFTable]
     /\ shards' = [shards EXCEPT ![o].splitStage = StagePreSplit,
                                 ![o].splittingMemTbls = [i \in 1..n |-> Len(memTbls) + i]]
     /\ UNCHANGED <<shardMap, memSlices, l0Slices, tbls, snapVars, epochVars, flushVars,
                    count, histVars>>

(***************************************************************************)
(* The epoch reclaimer                                                     *)
(***************************************************************************)
\* ResourceManager.Acquire
Acquire == [epoch |-> epoch, done |-> 0]
\* a guard acquired and released within one call
Released == [epoch |-> epoch, done |-> 1]
\* Guard.Delete: the resource is queued with the current epoch
Queued(res) == [epoch |-> epoch, res |-> res, destroyed |-> FALSE]
\* no guard still held registered an epoch at or below e
Passed(e) == \A g \in DOMAIN guards : guards[g].done = 0 => guards[g].epoch > e

AdvanceEpoch ==
  /\ epoch < MaxEpoch
  /\ epoch' = epoch + 1
  /\ UNCHANGED <<shardMap, heapVars, snapVars, guards, resources, flushVars, count, histVars>>

(***************************************************************************)
(* The flush pipeline: runFlushMemTable builds an L0 table of the memtable *)
(* at the head of flushCh; runFlushResult publishes it.                    *)
(***************************************************************************)
FlushMemTable ==
  /\ Alive /\ "runFlushMemTable" \in eng[TheEngine].running
  /\ Len(flushCh) > 0
  /\ LET task == Head(flushCh)
         t == Len(tbls) + 1
         l0 == [fid |-> Cardinality(FileIDs) + t, cf |-> L0File, level |-> 0,
                commitTS |-> memTbls[task.tbl].version, smallest |-> 1, biggest |-> NumKeys,
                data |-> memTbls[task.tbl].data, shard |-> task.shard,
                state |-> "open", by |-> "nobody"]
     IN /\ tbls' = Append(tbls, l0)
        /\ flushCh' = Tail(flushCh)
        /\ IF FlushResultChClosed
           THEN \* a send on a closed channel
                /\ panics' = panics \cup {"runFlushMemTable"}
                /\ UNCHANGED flushResultCh
           ELSE /\ Len(flushResultCh) < NumMemtables
                /\ flushResultCh' =
                     Append(flushResultCh, [shard |-> task.shard, tbl |-> task.tbl, l0 |-> t])
                /\ UNCHANGED panics
  /\ UNCHANGED <<shardMap, shards, memTbls, memSlices, l0Slices, snapVars, epochVars, tf,
                 count, wlog, removed, batchVars, callVars, pipeHist, eng, dirLock>>

\* a result worker that puts the new L0 table behind the older ones
FlushResultNewestLast ==
  /\ Alive /\ "runFlushResult" \in eng[TheEngine].running
  /\ Len(flushResultCh) > 0
  /\ LET task == Head(flushResultCh)
         o == task.shard
     IN /\ l0Slices' = Append(l0Slices, loadL0Tables(o) \o <<task.l0>>)
        /\ memSlices' = Append(memSlices, SelectSeq(loadMemTables(o), LAMBDA m : m # task.tbl))
        /\ shards' = [shards EXCEPT ![o].l0Tbls = Len(l0Slices) + 1,
                                    ![o].memTbls = Len(memSlices) + 1,
                                    ![o].initialFlushed = TRUE]
        /\ guards' = Append(guards, Released)
        /\ resources' = Append(resources, Queued([kind |-> "memtable", tbl |-> task.tbl]))
  /\ flushResultCh' = Tail(flushResultCh)
  /\ published' = Append(published, Head(flushResultCh))
  /\ UNCHANGED <<shardMap, memTbls, tbls, snapVars, epoch, flushCh, tf, count, wlog, removed,
                 batchVars, callVars, flushLog, trigLog, lifeVars>>

\* runFlushResult: one result of flushResultCh is published
FlushResult ==
  /\ Alive /\ "runFlushResult" \in eng[TheEngine].running
  /\ Len(flushResultCh) > 0
  /\ LET task == Head(flushResultCh)
         o == task.shard
     IN /\ l0Slices' = Append(l0Slices, <<task.l0>> \o loadL0Tables(o))
        /\ memSlices' = Append(memSlices, SelectSeq(loadMemTables(o), LAMBDA m : m # task.tbl))
        /\ shards' = [shards EXCEPT ![o].l0Tbls = Len(l0Slices) + 1,
                                    ![o].memTbls = Len(memSlices) + 1,
                                    ![o].initialFlushed = TRUE]
        /\ guards' = Append(guards, Released)
        /\ resources' = Append(resources, Queued([kind |-> "memtable", tbl |-> task.tbl]))
  /\ flushResultCh' = Tail(flushResultCh)
  /\ published' = Append(published, Head(flushResultCh))
  /\ UNCHANGED <<shardMap, memTbls, tbls, snapVars, epoch, flushCh, tf, count, wlog, removed,
                 batchVars, callVars, flushLog, trigLog, lifeVars>>

(***************************************************************************)
(* Compaction of L0 into level 1: the L0 tables of the shard and the       *)
(* level-1 tables of every CF are merged, the outputs are installed as the *)
(* new level-1 slices together with a new L0 slice, and the inputs go to   *)
(* the epoch reclaimer.                                                    *)
(***************************************************************************)
\* an entry of the newer run shadows the older run's entry of the same (cf, key, version)
MergeRuns(newer, older) ==
  newer \cup {e \in older : ~\E f \in newer :
                 f.cf = e.cf /\ f.key = e.key /\ f.vs.Version = e.vs.Version}

RECURSIVE MergeAll(_)
MergeAll(runs) ==
  IF runs = <<>> THEN {} ELSE MergeRuns(Head(runs), MergeAll(Tail(runs)))

Compaction(o) ==
  LET l0s == loadL0Tables(o)
      l1s == UNION {Range(shards[o].cfs[cf][1]) : cf \in CFs}
      merged == MergeRuns(MergeAll([i \in 1..Len(l0s) |-> tbls[l0s[i]].data]),
                          UNION {tbls[t].data : t \in l1s})
      outCFs == Ascending({cf \in CFs : \E e \in merged : e.cf = cf})
      out(i) == LET d == {e \in merged : e.cf = outCFs[i]}
                IN [fid |-> Cardinality(FileIDs) + Len(tbls) + i, cf |-> outCFs[i], level |-> 1,
                    commitTS |-> 0, smallest |-> Min({e.key : e \in d}),
                    biggest |-> Max({e.key : e \in d}), data |-> d, shard |-> o,
                    state |-> "open", by |-> "nobody"]
      addr(cf) == LET i == CHOOSE j \in 1..Len(outCFs) : outCFs[j] = cf IN Len(tbls) + i
  IN /\ count.compactions < MaxCompactions
     /\ shardMap[shards[o].ID] = o
     /\ ~isSplitting(o) /\ ~shards[o].passive
     /\ Len(l0s) > 0
     /\ count' = [count EXCEPT !.compactions = @ + 1]
     /\ tbls' = tbls \o [i \in 1..Len(outCFs) |-> out(i)]
     /\ l0Slices' = Append(l0Slices, <<>>)
     /\ shards' = [shards EXCEPT
           ![o].l0Tbls = Len(l0Slices) + 1,
           ![o].cfs = [cf \in CFs |-> [l \in Levels |->
                         IF l # 1 THEN shards[o].cfs[cf][l]
                         ELSE IF cf \in Range(outCFs) THEN <<addr(cf)>> ELSE <<>>]]]
     /\ guards' = Append(guards, Released)
     /\ resources' = Append(resources,
           Queued([kind |-> "tables", tables |-> Range(l0s) \cup l1s]))
     /\ UNCHANGED <<shardMap, memTbls, memSlices, snapVars, epoch, flushVars, histVars>>

(***************************************************************************)
(* Snapshots                                                               *)
(***************************************************************************)
\* Shard.loadSplittingMemTable(i), i 0-based
loadSplittingMemTable(o, i) == shards[o].splittingMemTbls[i + 1]

\* a SnapAccess built without the splitting memtables
SnapAccessNoSplitting(o, g) ==
  [guard |-> g, shard |-> o, splitting |-> <<>>,
   memTables |-> shards[o].memTbls, l0Tables |-> shards[o].l0Tbls, discarded |-> FALSE]

\* the SnapAccess that Engine.NewSnapAccess builds; g is the guard it acquired
SnapAccess(o, g) ==
  [guard |-> g, shard |-> o,
   splitting |-> IF isSplitting(o)
                 THEN [i \in 1..Len(shards[o].splittingMemTbls) |-> loadSplittingMemTable(o, i - 1)]
                 ELSE <<>>,
   memTables |-> shards[o].memTbls,
   l0Tables |-> shards[o].l0Tbls,
   discarded |-> FALSE]

\* what the shard holds at this moment
Holdings(o) ==
  [wlen |-> Len(wlog[o]), memTables |-> loadMemTables(o), l0Tables |-> loadL0Tables(o),
   splitting |-> IF isSplitting(o) THEN shards[o].splittingMemTbls ELSE <<>>,
   cfs |-> shards[o].cfs]

NewSnapAccess(o) ==
  /\ Len(snaps) < MaxSnaps
  /\ shardMap[shards[o].ID] = o
  /\ guards' = Append(guards, Acquire)
  /\ snaps' = Append(snaps, SnapAccess(o, Len(guards) + 1))
  /\ snapHist' = Append(snapHist, Holdings(o))
  /\ UNCHANGED <<shardMap, heapVars, epoch, resources, flushVars, count, histVars>>

(***************************************************************************)
(* NewSnapAccess and the publication of a flush result, step by step: each *)
(* is two atomic accesses of the shard's slices, and the other may run     *)
(* between them.                                                           *)
(***************************************************************************)
NoSnap == [pc |-> "idle"]
NoPublish == [pc |-> "idle"]

\* the slice of shard o a field of the SnapAccess is loaded from
LoadSlice(o, field) == IF field = "memTables" THEN shards[o].memTbls ELSE shards[o].l0Tbls

\* a NewSnapAccess that loads the L0 slice before the memtable slice
SnapLoadOrderL0First == <<"l0Tables", "memTables">>

\* snap.memTables = shard.loadMemTables(); snap.l0Tables = shard.loadL0Tables()
SnapLoadOrder == <<"memTables", "l0Tables">>

\* NewSnapAccess up to its first load
NewSnapAccessBegin(o) ==
  /\ ns.pc = "idle"
  /\ Len(snaps) < MaxSnaps
  /\ shardMap[shards[o].ID] = o
  /\ guards' = Append(guards, Acquire)
  /\ ns' = [pc |-> "load", top |-> Len(memTbls), holdings |-> Holdings(o),
            snap |-> [SnapAccess(o, Len(guards) + 1) EXCEPT
                        ![SnapLoadOrder[1]] = LoadSlice(o, SnapLoadOrder[1]),
                        ![SnapLoadOrder[2]] = Nil]]
  /\ UNCHANGED <<shardMap, heapVars, snapVars, epoch, resources, flushVars, count, wlog, removed,
                 batchVars, pipeHist, lifeVars, rsRet, latest, allocLog, cwb, cwbLog, fr, auxVars>>

\* the second load of NewSnapAccess and its return
NewSnapAccessEnd ==
  /\ ns.pc = "load"
  /\ snaps' = Append(snaps, [ns.snap EXCEPT
                               ![SnapLoadOrder[2]] = LoadSlice(ns.snap.shard, SnapLoadOrder[2])])
  /\ snapHist' = Append(snapHist, [top |-> ns.top] @@ ns.holdings)
  /\ ns' = NoSnap
  /\ UNCHANGED <<shardMap, heapVars, epochVars, flushVars, count, wlog, removed,
                 batchVars, pipeHist, lifeVars, rsRet, latest, allocLog, cwb, cwbLog, fr, auxVars>>

\* runFlushResult takes a result and prepends its L0 table to the L0 slice
FlushResultAddL0 ==
  /\ Alive /\ "runFlushResult" \in eng[TheEngine].running
  /\ fr.pc = "idle"
  /\ Len(flushResultCh) > 0
  /\ LET task == Head(flushResultCh)
         o == task.shard
     IN /\ l0Slices' = Append(l0Slices, <<task.l0>> \o loadL0Tables(o))
        /\ shards' = [shards EXCEPT ![o].l0Tbls = Len(l0Slices) + 1]
        /\ fr' = [pc |-> "remove", task |-> task]
  /\ flushResultCh' = Tail(flushResultCh)
  /\ UNCHANGED <<shardMap, memTbls, memSlices, tbls, snapVars, epochVars, flushCh, tf, count,
                 wlog, removed, batchVars, pipeHist, lifeVars, rsRet, latest, allocLog, cwb,
                 cwbLog, ns, auxVars>>

\* runFlushResult removes the flushed memtable from the memtable slice and
\* hands it to the reclaimer
FlushResultRemoveMem ==
  /\ Alive /\ "runFlushResult" \in eng[TheEngine].running
  /\ fr.pc = "remove"
  /\ LET task == fr.task
         o == task.shard
     IN /\ memSlices' = Append(memSlices, SelectSeq(loadMemTables(o), LAMBDA m : m # task.tbl))
        /\ shards' = [shards EXCEPT ![o].memTbls = Len(memSlices) + 1,
                                    ![o].initialFlushed = TRUE]
        /\ guards' = Append(guards, Released)
        /\ resources' = Append(resources, Queued([kind |-> "memtable", tbl |-> task.tbl]))
        /\ published' = Append(published, task)
  /\ fr' = NoPublish
  /\ UNCHANGED <<shardMap, memTbls, l0Slices, tbls, snapVars, epoch, flushVars, count, wlog,
                 removed, batchVars, flushLog, trigLog, lifeVars, rsRet, latest, allocLog, cwb,
                 cwbLog, ns, auxVars>>

\* SnapAccess.Discard; a caller discards a snapshot once
Discard(s) ==
  /\ ~snaps[s].discarded
  /\ guards' = [guards EXCEPT ![snaps[s].guard].done = @ + 1]
  /\ snaps' = [snaps EXCEPT ![s].discarded = TRUE]
  /\ UNCHANGED <<shardMap, heapVars, snapHist, epoch, resources, flushVars, count, histVars>>

\* SnapAccess.Get on a snapshot not yet discarded: what it returns is
\* GetResult(snaps[s], cf, key, version).  It changes nothing but the seek
\* hints of the snapshot, a cache that no result depends on and that the
\* model leaves out.
Get(s, cf, key, version) ==
  /\ ~snaps[s].discarded
  /\ GetResult(snaps[s], cf, key, version).err \in {NoErr, ErrKeyNotFound}
  /\ UNCHANGED vars

\* the loop of MultiGet that stops at ErrKeyNotFound too
MultiGetLoopStopsAtNotFound(rs) ==
  IF \E i \in DOMAIN rs : rs[i].err # NoErr
  THEN [items |-> <<>>, err |-> rs[Min({i \in DOMAIN rs : rs[i].err # NoErr})].err]
  ELSE [items |-> [i \in DOMAIN rs |-> rs[i].item], err |-> NoErr]

\* the loop of SnapAccess.MultiGet over rs, the (item, err) pairs Get returns
\* for the keys in order: (nil, err) at the first err that is neither nil
\* nor ErrKeyNotFound, else the items; <<>> stands for the nil slice
MultiGetLoop(rs) ==
  LET step[i \in 0..Len(rs)] ==
        IF i = 0 THEN [items |-> <<>>, err |-> NoErr]
        ELSE IF step[i - 1].err # NoErr THEN step[i - 1]
        ELSE IF rs[i].err # NoErr /\ rs[i].err # ErrKeyNotFound
        THEN [items |-> <<>>, err |-> rs[i].err]
        ELSE [items |-> Append(step[i - 1].items, rs[i].item), err |-> NoErr]
  IN step[Len(rs)]

\* SnapAccess.MultiGet: the (items, err) pair it returns
MultiGetResult(s, cf, keys, version) ==
  LET ver == IF version = 0 THEN MaxUint64 ELSE version
  IN MultiGetLoop([i \in DOMAIN keys |-> GetResult(s, cf, keys[i], ver)])

\* the key lists of the model: every list of at most NumKeys keys
KeyLists == UNION {[1..n -> Keys] : n \in 0..NumKeys}

\* SnapAccess.MultiGet on a snapshot not yet discarded; like Get it changes
\* nothing but the seek hints
MultiGet(s, cf, keys, version) ==
  /\ ~snaps[s].discarded
  /\ MultiGetResult(snaps[s], cf, keys, version).err = NoErr
  /\ UNCHANGED vars

(***************************************************************************)
(* Engine.RemoveShard and Engine.removeShardFiles                          *)
(***************************************************************************)
\* the deletion removeShardFiles queues: its closure keeps shard and removeFile
Deletion(o, removeFile) == [kind |-> "deletion", shard |-> o, removeFile |-> removeFile]

\* a removeShardFiles that closes the tables itself, at once
removeShardFilesInline(o, removeFile) ==
  /\ guards' = Append(guards, Released)
  /\ tbls' = CloseTables(tbls, ShardTables(o), IF removeFile THEN "deleted" ELSE "closed",
                         "removeShardFiles")
  /\ UNCHANGED resources

\* a removeShardFiles that returns without guard.Done()
removeShardFilesKeepsGuard(o, removeFile) ==
  /\ guards' = Append(guards, Acquire)
  /\ resources' = Append(resources, Queued(Deletion(o, removeFile)))
  /\ UNCHANGED tbls

\* guard := Acquire(); defer guard.Done(); guard.Delete(deletion)
removeShardFiles(o, removeFile) ==
  /\ guards' = Append(guards, Released)
  /\ resources' = Append(resources, Queued(Deletion(o, removeFile)))
  /\ UNCHANGED tbls

\* what RemoveShard returns
ErrShardNotFound == "shard not found"
NoRemove == [op |-> "none"]

\* a RemoveShard that leaves the id in the shard map
RemoveShardKeepsMap(shardID, removeFile) ==
  /\ count.removes < MaxRemoves
  /\ IF shardMap[shardID] = Nil
     THEN /\ rsRet' = [op |-> "RemoveShard", shardID |-> shardID, err |-> ErrShardNotFound,
                       found |-> Nil, queued |-> Len(resources)]
          /\ UNCHANGED <<shardMap, guards, resources, tbls, removed, count>>
     ELSE /\ count' = [count EXCEPT !.removes = @ + 1]
          /\ UNCHANGED shardMap
          /\ removeShardFiles(shardMap[shardID], removeFile)
          /\ removed' = Append(removed,
                [shard |-> shardMap[shardID], tables |-> ShardTables(shardMap[shardID]),
                 held |-> {g \in DOMAIN guards : guards[g].done = 0}])
          /\ rsRet' = [op |-> "RemoveShard", shardID |-> shardID, err |-> NoErr,
                       found |-> shardMap[shardID], queued |-> Len(resources)]
  /\ UNCHANGED <<shards, memTbls, memSlices, l0Slices, snapVars, epoch, flushVars, wlog,
                 batchVars, pipeHist, lifeVars, latest, allocLog, cwb, cwbLog, raceVars, auxVars>>

RemoveShard(shardID, removeFile) ==
  /\ count.removes < MaxRemoves
  /\ IF shardMap[shardID] = Nil
     THEN /\ rsRet' = [op |-> "RemoveShard", shardID |-> shardID, err |-> ErrShardNotFound,
                       found |-> Nil, queued |-> Len(resources)]
          /\ UNCHANGED <<shardMap, guards, resources, tbls, removed, count>>
     ELSE /\ count' = [count EXCEPT !.removes = @ + 1]
          /\ shardMap' = [shardMap EXCEPT ![shardID] = Nil]
          /\ removeShardFiles(shardMap[shardID], removeFile)
          /\ removed' = Append(removed,
                [shard |-> shardMap[shardID], tables |-> ShardTables(shardMap[shardID]),
                 held |-> {g \in DOMAIN guards : guards[g].done = 0}])
          /\ rsRet' = [op |-> "RemoveShard", shardID |-> shardID, err |-> NoErr,
                       found |-> shardMap[shardID], queued |-> Len(resources)]
  /\ UNCHANGED <<shards, memTbls, memSlices, l0Slices, snapVars, epoch, flushVars, wlog,
                 batchVars, pipeHist, lifeVars, latest, allocLog, cwb, cwbLog, raceVars, auxVars>>

\* Engine.GetShard: the shard of an id, Nil when the map has none
GetShard(shardID) == shardMap[shardID]

(***************************************************************************)
(* The reclaimer runs the destructor of a queued resource once no guard    *)
(* still held registered an epoch at or below the epoch it was queued in.  *)
(***************************************************************************)
Destroy(res) ==
  CASE res.kind = "deletion" ->
         \* the closure loads the shard's tables when it runs
         /\ tbls' = CloseTables(tbls, ShardTables(res.shard),
                                IF res.removeFile THEN "deleted" ELSE "closed", "reclaimer")
         /\ UNCHANGED memTbls
    [] res.kind = "tables" ->
         /\ tbls' = CloseTables(tbls, res.tables, "deleted", "reclaimer")
         /\ UNCHANGED memTbls
    [] res.kind = "memtable" ->
         /\ memTbls' = [memTbls EXCEPT ![res.tbl].freed = TRUE]
         /\ UNCHANGED tbls

Reclaim(r) ==
  /\ ~resources[r].destroyed
  /\ Passed(resources[r].epoch)
  /\ resources' = [resources EXCEPT ![r].destroyed = TRUE]
  /\ Destroy(resources[r].res)
  /\ UNCHANGED <<shardMap, shards, memSlices, l0Slices, snapVars, guards, epoch, flushVars,
                 count, histVars>>

(***************************************************************************)
(* Engine.TriggerFlush.  Every send on flushCh is a step of its own: it    *)
(* waits while the channel holds NumMemtables tasks.                       *)
(***************************************************************************)
NoTrigger == [pc |-> "idle"]

\* a TriggerFlush whose loop starts at the last memtable whatever skipCnt is
TriggerFlushBeginIgnoresSkip(o, skipCnt) ==
  /\ Alive
  /\ tf.pc = "idle"
  /\ count.triggers < MaxTriggers
  /\ shardMap[shards[o].ID] = o
  /\ count' = [count EXCEPT !.triggers = @ + 1]
  /\ tf' = [pc |-> "loop", shard |-> o, mems |-> loadMemTables(o),
            i |-> Len(loadMemTables(o)) - 1]
  /\ trigLog' = Append(trigLog, [shard |-> o, skipCnt |-> skipCnt, mems |-> loadMemTables(o),
                                 writes |-> count.writes, queued |-> Len(flushCh),
                                 done |-> FALSE])
  /\ UNCHANGED <<shardMap, heapVars, snapVars, epochVars, flushCh, flushResultCh, wlog, removed,
                 batchVars, callVars, flushLog, published, lifeVars>>

\* mems := shard.loadMemTables(); i := len(mems.tables) - skipCnt - 1
TriggerFlushBegin(o, skipCnt) ==
  /\ Alive
  /\ tf.pc = "idle"
  /\ count.triggers < MaxTriggers
  /\ shardMap[shards[o].ID] = o
  /\ count' = [count EXCEPT !.triggers = @ + 1]
  /\ tf' = [pc |-> "loop", shard |-> o, mems |-> loadMemTables(o),
            i |-> Len(loadMemTables(o)) - skipCnt - 1]
  /\ trigLog' = Append(trigLog, [shard |-> o, skipCnt |-> skipCnt, mems |-> loadMemTables(o),
                                 writes |-> count.writes, queued |-> Len(flushCh),
                                 done |-> FALSE])
  /\ UNCHANGED <<shardMap, heapVars, snapVars, epochVars, flushCh, flushResultCh, wlog, removed,
                 batchVars, callVars, flushLog, published, lifeVars>>

\* a send that waits until no guard is held
TriggerFlushSendAfterReaders ==
  /\ Alive
  /\ tf.pc = "loop"
  /\ tf.i > 0
  /\ \A g \in DOMAIN guards : guards[g].done > 0
  /\ IF FlushChClosed
     THEN \* a send on a closed channel
          /\ panics' = panics \cup {"TriggerFlush"}
          /\ UNCHANGED <<flushCh, flushLog, tf>>
     ELSE /\ Len(flushCh) < NumMemtables
          /\ flushCh' = Append(flushCh, [shard |-> tf.shard, tbl |-> tf.mems[tf.i + 1]])
          /\ flushLog' = Append(flushLog, [shard |-> tf.shard, tbl |-> tf.mems[tf.i + 1],
                                           call |-> Len(trigLog)])
          /\ tf' = [tf EXCEPT !.i = @ - 1]
          /\ UNCHANGED panics
  /\ UNCHANGED <<shardMap, heapVars, snapVars, epochVars, flushResultCh, count, wlog, removed,
                 batchVars, callVars, trigLog, published, eng, dirLock>>

\* a send that does not wait for room in the channel
TriggerFlushSendUnbounded ==
  /\ Alive
  /\ tf.pc = "loop"
  /\ tf.i > 0
  /\ IF FlushChClosed
     THEN \* a send on a closed channel
          /\ panics' = panics \cup {"TriggerFlush"}
          /\ UNCHANGED <<flushCh, flushLog, tf>>
     ELSE /\ flushCh' = Append(flushCh, [shard |-> tf.shard, tbl |-> tf.mems[tf.i + 1]])
          /\ flushLog' = Append(flushLog, [shard |-> tf.shard, tbl |-> tf.mems[tf.i + 1],
                                           call |-> Len(trigLog)])
          /\ tf' = [tf EXCEPT !.i = @ - 1]
          /\ UNCHANGED panics
  /\ UNCHANGED <<shardMap, heapVars, snapVars, epochVars, flushResultCh, count, wlog, removed,
                 batchVars, callVars, trigLog, published, eng, dirLock>>

\* a send that sets the version of the memtable it sends once more
TriggerFlushSendReseals ==
  /\ Alive
  /\ tf.pc = "loop"
  /\ tf.i > 0
  /\ IF FlushChClosed
     THEN \* a send on a closed channel
          /\ panics' = panics \cup {"TriggerFlush"}
          /\ UNCHANGED <<memTbls, flushCh, flushLog, tf>>
     ELSE /\ Len(flushCh) < NumMemtables
          /\ memTbls' = [memTbls EXCEPT ![tf.mems[tf.i + 1]].version = allocCommitTS(tf.shard)]
          /\ flushCh' = Append(flushCh, [shard |-> tf.shard, tbl |-> tf.mems[tf.i + 1]])
          /\ flushLog' = Append(flushLog, [shard |-> tf.shard, tbl |-> tf.mems[tf.i + 1],
                                           call |-> Len(trigLog)])
          /\ tf' = [tf EXCEPT !.i = @ - 1]
          /\ UNCHANGED panics
  /\ UNCHANGED <<shardMap, shards, memSlices, l0Slices, tbls, snapVars, epochVars, flushResultCh,
                 count, wlog, removed, batchVars, callVars, trigLog, published, eng, dirLock>>

\* for ; i > 0; i-- { en.flushCh <- &flushTask{shard, mems.tables[i]} }
TriggerFlushSend ==
  /\ Alive
  /\ tf.pc = "loop"
  /\ tf.i > 0
  /\ IF FlushChClosed
     THEN \* a send on a closed channel
          /\ panics' = panics \cup {"TriggerFlush"}
          /\ UNCHANGED <<flushCh, flushLog, tf>>
     ELSE /\ Len(flushCh) < NumMemtables
          /\ flushCh' = Append(flushCh, [shard |-> tf.shard, tbl |-> tf.mems[tf.i + 1]])
          /\ flushLog' = Append(flushLog, [shard |-> tf.shard, tbl |-> tf.mems[tf.i + 1],
                                           call |-> Len(trigLog)])
          /\ tf' = [tf EXCEPT !.i = @ - 1]
          /\ UNCHANGED panics
  /\ UNCHANGED <<shardMap, heapVars, snapVars, epochVars, flushResultCh, count, wlog, removed,
                 batchVars, callVars, trigLog, published, eng, dirLock>>

\* a return that sends the placeholder although the shard was flushed before
TriggerFlushEndIgnoresFlushed ==
  LET placeholder == Len(tf.mems) = 1 /\ TableEmpty(tf.mems[1])
      \* what the shard was when the call decided
      seen == [done |-> TRUE,
               empty |-> /\ Len(loadMemTables(tf.shard)) = 1
                         /\ TableEmpty(loadMemTables(tf.shard)[1]),
               flushed |-> shards[tf.shard].initialFlushed,
               placeholder |-> IF placeholder THEN Len(memTbls) + 1 ELSE Nil]
  IN /\ Alive
     /\ tf.pc = "loop"
     /\ tf.i <= 0
     /\ IF placeholder /\ FlushChClosed
        THEN \* a send on a closed channel
             /\ panics' = panics \cup {"TriggerFlush"}
             /\ UNCHANGED <<shards, memTbls, flushCh, flushLog, trigLog, tf>>
        ELSE /\ IF placeholder
                THEN /\ Len(flushCh) < NumMemtables
                     /\ shards' = [shards EXCEPT ![tf.shard].commitTS = allocCommitTS(tf.shard)]
                     /\ memTbls' = Append(memTbls,
                                          [NewCFTable EXCEPT !.version = allocCommitTS(tf.shard)])
                     /\ flushCh' = Append(flushCh, [shard |-> tf.shard, tbl |-> Len(memTbls) + 1])
                     /\ flushLog' = Append(flushLog, [shard |-> tf.shard, tbl |-> Len(memTbls) + 1,
                                                      call |-> Len(trigLog)])
                ELSE UNCHANGED <<shards, memTbls, flushCh, flushLog>>
             /\ trigLog' = [trigLog EXCEPT ![Len(trigLog)] = seen @@ @]
             /\ tf' = NoTrigger
             /\ UNCHANGED panics
     /\ UNCHANGED <<shardMap, memSlices, l0Slices, tbls, snapVars, epochVars, flushResultCh,
                    count, wlog, removed, batchVars, callVars, published, eng, dirLock>>

\* the placeholder of an empty, never flushed shard, and the return
TriggerFlushEnd ==
  LET placeholder == Len(tf.mems) = 1 /\ TableEmpty(tf.mems[1])
                       /\ ~shards[tf.shard].initialFlushed
      \* what the shard was when the call decided
      seen == [done |-> TRUE,
               empty |-> /\ Len(loadMemTables(tf.shard)) = 1
                         /\ TableEmpty(loadMemTables(tf.shard)[1]),
               flushed |-> shards[tf.shard].initialFlushed,
               placeholder |-> IF placeholder THEN Len(memTbls) + 1 ELSE Nil]
  IN /\ Alive
     /\ tf.pc = "loop"
     /\ tf.i <= 0
     /\ IF placeholder /\ FlushChClosed
        THEN \* a send on a closed channel
             /\ panics' = panics \cup {"TriggerFlush"}
             /\ UNCHANGED <<shards, memTbls, flushCh, flushLog, trigLog, tf>>
        ELSE /\ IF placeholder
                THEN /\ Len(flushCh) < NumMemtables
                     /\ shards' = [shards EXCEPT ![tf.shard].commitTS = allocCommitTS(tf.shard)]
                     /\ memTbls' = Append(memTbls,
                                          [NewCFTable EXCEPT !.version = allocCommitTS(tf.shard)])
                     /\ flushCh' = Append(flushCh, [shard |-> tf.shard, tbl |-> Len(memTbls) + 1])
                     /\ flushLog' = Append(flushLog, [shard |-> tf.shard, tbl |-> Len(memTbls) + 1,
                                                      call |-> Len(trigLog)])
                ELSE UNCHANGED <<shards, memTbls, flushCh, flushLog>>
             /\ trigLog' = [trigLog EXCEPT ![Len(trigLog)] = seen @@ @]
             /\ tf' = NoTrigger
             /\ UNCHANGED panics
     /\ UNCHANGED <<shardMap, memSlices, l0Slices, tbls, snapVars, epochVars, flushResultCh,
                    count, wlog, removed, batchVars, callVars, published, eng, dirLock>>

(***************************************************************************)
(* WriteBatch                                                              *)
(***************************************************************************)
MaxBatch == 2
MaxAllocs == 4
MaxCount == 3
MaxOps == 3
MaxSkip == 3
MaxTSCalls == 4
MaxClock == 2
MaxGCCalls == 3
MaxSafePoint == 3
MaxSplits == 3
MaxRawKey == 4

\* len(key): the keys of the model are one byte long
KeyLen(key) == 1
\* memtable.EstimateNodeSize
EstimateNodeSize == 1
\* y.ValueStruct.EncodedSize: the header and the value bytes
EncodedSize(vs) == IF vs.Value = Nil THEN 1 ELSE 2
\* memtable.Entry.EstimateSize
EstimateSize(e) == KeyLen(e.key) + EncodedSize(e.vs) + EstimateNodeSize

\* Engine.NewWriteBatch: no entry for any CF, no property, no arena.  heap
\* holds every backing array entryArena had (the entries of the batch point
\* into them); entryArena is the address of the current one, Nil for none.
NewWriteBatch ==
  [entries |-> [cf \in CFs |-> <<>>], estimatedSize |-> 0, properties |-> <<>>,
   heap |-> <<>>, entryArena |-> Nil, entryArenaIdx |-> 0]
NoCall == [op |-> "none"]
Call(op, cf, key, val, err) ==
  [op |-> op, cf |-> cf, key |-> key, val |-> val, err |-> err, before |-> wb]

\* the zero memtable.Entry append adds to the arena
ZeroEntry == Entry(Nil, Nil, [Meta |-> NoMeta, UserMeta |-> Nil, Version |-> 0, Value |-> Nil, valid |-> TRUE])
\* the capacity append gives the backing array that replaces a full one
GrowCap(n) == IF n = 0 THEN 1 ELSE 2 * n
PropKeys == {"a", "b"}

\* WriteBatch.allocEntry: a full arena is replaced by a larger copy, the
\* slot at entryArenaIdx is set and its address returned
allocEntry(b, e) ==
  LET old == IF b.entryArena = Nil THEN <<>> ELSE b.heap[b.entryArena]
      full == Len(old) <= b.entryArenaIdx
      grown == [i \in 1..GrowCap(Len(old)) |-> IF i <= Len(old) THEN old[i] ELSE ZeroEntry]
      heap1 == IF full THEN Append(b.heap, grown) ELSE b.heap
      arena == IF full THEN Len(heap1) ELSE b.entryArena
      slot == b.entryArenaIdx + 1
  IN [b |-> [b EXCEPT !.heap = [heap1 EXCEPT ![arena][slot] = e],
                      !.entryArena = arena,
                      !.entryArenaIdx = @ + 1],
      ptr |-> <<arena, slot>>]

\* WriteBatch.Iterate with a function that asks for every entry: the
\* entries of a CF, each read through its pointer
Iterate(b, cf) == [i \in DOMAIN b.entries[cf] |->
                     b.heap[b.entries[cf][i][1]][b.entries[cf][i][2]]]

\* WriteBatch.NumEntries
NumEntries(b) == LET n[i \in 0..Cardinality(CFs)] ==
                       IF i = 0 THEN 0 ELSE n[i - 1] + Len(b.entries[i - 1])
                 IN n[Cardinality(CFs)]
\* WriteBatch.EstimatedSize
EstimatedSize(b) == b.estimatedSize

engineVars == <<shardMap, heapVars, snapVars, epochVars, flushVars, count, wlog, removed,
                pipeHist, lifeVars, callVars>>

\* a Put that takes its arena slot before it looks at the version
PutInAllocatesFirst(b, cf, key, val) ==
  LET a == allocEntry(b, Entry(cf, key, val))
  IN IF checkVersion(cf, val.Version) # NoErr THEN a.b
     ELSE [a.b EXCEPT !.entries[cf] = Append(@, a.ptr),
                      !.estimatedSize = @ + KeyLen(key) + EncodedSize(val) + EstimateNodeSize]

\* WriteBatch.Put on batch b
PutIn(b, cf, key, val) ==
  IF checkVersion(cf, val.Version) # NoErr THEN b
  ELSE LET a == allocEntry(b, Entry(cf, key, val))
       IN [a.b EXCEPT !.entries[cf] = Append(@, a.ptr),
                      !.estimatedSize = @ + KeyLen(key) + EncodedSize(val) + EstimateNodeSize]

\* WriteBatch.Delete on batch b
DeleteIn(b, cf, key, version) ==
  IF checkVersion(cf, version) # NoErr THEN b
  ELSE LET a == allocEntry(b, Entry(cf, key, DeleteValue(version)))
       IN [a.b EXCEPT !.entries[cf] = Append(@, a.ptr),
                      !.estimatedSize = @ + KeyLen(key) + EstimateNodeSize]

\* WriteBatch.SetProperty on batch b
SetPropertyIn(b, key, val) ==
  [b EXCEPT !.properties = [k \in DOMAIN @ \cup {key} |-> IF k = key THEN val ELSE @[k]]]

\* a Reset that leaves the properties in place
ResetKeepsProperties(b) ==
  [b EXCEPT !.entries = [cf \in CFs |-> <<>>], !.estimatedSize = 0, !.entryArenaIdx = 0]

\* WriteBatch.Reset on batch b: the arena and its slots stay
ResetIn(b) ==
  [b EXCEPT !.entries = [cf \in CFs |-> <<>>],
            !.estimatedSize = 0,
            !.properties = <<>>,
            !.entryArenaIdx = 0]

WBPut(cf, key, val) ==
  /\ wb.entryArenaIdx < MaxBatch
  /\ wbRet' = Call("Put", cf, key, val, checkVersion(cf, val.Version))
  /\ wb' = PutIn(wb, cf, key, val)
  /\ wbTwin' = PutIn(wbTwin, cf, key, val)
  /\ UNCHANGED engineVars

WBDelete(cf, key, version) ==
  /\ wb.entryArenaIdx < MaxBatch
  /\ wbRet' = Call("Delete", cf, key, DeleteValue(version), checkVersion(cf, version))
  /\ wb' = DeleteIn(wb, cf, key, version)
  /\ wbTwin' = DeleteIn(wbTwin, cf, key, version)
  /\ UNCHANGED engineVars

WBSetProperty(key, val) ==
  /\ wbRet' = [op |-> "SetProperty", key |-> key, val |-> val, before |-> wb]
  /\ wb' = SetPropertyIn(wb, key, val)
  /\ wbTwin' = SetPropertyIn(wbTwin, key, val)
  /\ UNCHANGED engineVars

WBReset ==
  /\ wb' = ResetIn(wb)
  /\ wbTwin' = NewWriteBatch
  /\ wbRet' = [op |-> "Reset", before |-> wb]
  /\ UNCHANGED engineVars

(***************************************************************************)
(* localIDAllocator.  The counter is a uint64; the calls of the model stay *)
(* far below 2^64, so the addition is modelled without wrap-around.        *)
(***************************************************************************)
\* return atomic.AddUint64(&l.latest, uint64(count)), nil
AllocID(cnt) ==
  /\ Len(allocLog) < MaxAllocs
  /\ latest' = latest + cnt
  /\ allocLog' = Append(allocLog, [count |-> cnt, ret |-> latest + cnt])
  /\ UNCHANGED <<shardMap, heapVars, snapVars, epochVars, flushVars, count, wlog, removed,
                 batchVars, pipeHist, lifeVars, rsRet, cwb, cwbLog, raceVars, auxVars>>

(***************************************************************************)
(* customWriteBatch of the raft store writer.  Each operation sets the     *)
(* type of the batch's builder and appends one entry to it.                *)
(***************************************************************************)
Payloads == <<"Prewrite", "Commit", "Rollback", "PessimisticLock", "PessimisticRollback">>
\* raftlog.TypePrewrite .. raftlog.TypePessimisticRollback: distinct, none is 0
TypeOf(op) == CHOOSE tp \in DOMAIN Payloads : Payloads[tp] = op
\* the Append function of the builder each operation calls
AppendOf(op) ==
  CASE op \in {"Prewrite", "PessimisticLock"} -> "AppendLock"
    [] op = "Commit" -> "AppendCommit"
    [] op = "Rollback" -> "AppendRollback"
    [] op = "PessimisticRollback" -> "AppendKeyOnly"

\* NewCustomWriteBatch: a builder with no type and no entry; failed is set
\* when y.Assert has stopped the caller
NewCustomWriteBatch == [tp |-> 0, entries |-> <<>>, failed |-> FALSE]

\* a setType that sets the type whatever it was
setTypeOverwrites(b, tp) == [b EXCEPT !.tp = tp]

\* customWriteBatch.setType
setType(b, tp) ==
  IF b.tp = 0 THEN [b EXCEPT !.tp = tp]
  ELSE IF tp = b.tp THEN b
  ELSE [b EXCEPT !.failed = TRUE]

\* an operation of the batch: setType, then the builder's Append
CWBApply(op, key) ==
  LET typed == setType(cwb, TypeOf(op))
  IN /\ Len(cwbLog) < MaxOps
     /\ ~cwb.failed
     /\ cwbLog' = Append(cwbLog, op)
     /\ cwb' = IF typed.failed THEN typed
               ELSE [typed EXCEPT !.entries =
                        Append(@, [append |-> AppendOf(op), key |-> key, op |-> op])]
     /\ UNCHANGED <<shardMap, heapVars, snapVars, epochVars, flushVars, count, wlog, removed,
                    batchVars, pipeHist, lifeVars, rsRet, latest, allocLog, raceVars, auxVars>>

Prewrite(key) == CWBApply("Prewrite", key)
Commit(key) == CWBApply("Commit", key)
Rollback(key) == CWBApply("Rollback", key)
PessimisticLock(key) == CWBApply("PessimisticLock", key)
PessimisticRollback(key) == CWBApply("PessimisticRollback", key)

(***************************************************************************)
(* engineWriter and the Callback of a raft command.  The writer sends the  *)
(* command and waits on the callback; the peer that owns the command       *)
(* answers it: MaybeResponseOnProposed at most once, then Done once.       *)
(***************************************************************************)
\* every variable but those of this part
coreVars == <<shardMap, heapVars, snapVars, epochVars, flushVars, count, wlog, removed,
              batchVars, pipeHist, lifeVars, rsRet, latest, allocLog, cwb, cwbLog, raceVars>>
besidesRaft == <<coreVars, ls, ts, gc, rm>>
besidesLoad == <<coreVars, raftVars, ts, gc, rm>>
besidesTS == <<coreVars, raftVars, ls, gc, rm>>
besidesGC == <<coreVars, raftVars, ls, ts, rm>>
besidesRM == <<coreVars, raftVars, ls, ts, gc>>
NoLoad == [pc |-> "idle"]

\* a *RaftCmdResponse: nil, or one whose header carries an error or none
NilResponse == [isNil |-> TRUE]
Response(error) == [isNil |-> FALSE, header |-> [error |-> error]]
Responses == {NilResponse, Response(NoErr), Response("EpochNotMatch")}
\* resp.GetHeader().GetError(): the getters return nil on a nil receiver
GetError(resp) == IF resp.isNil THEN NoErr ELSE resp.header.error

\* a response channel with room for one value
RespChCapOfOne == Cardinality({"Done"})
\* make(chan *raft_cmdpb.RaftCmdResponse, 2)
RespChCap == 2

\* the kinds of command: the two calls of the writer, and a command of the
\* store itself, which has a nil callback
Kinds == {"Write", "WritePessimisticLock", "internal"}

\* no command; sends holds every send on respCh, calls every call of doneFn,
\* each with the number of sends before it
NoCallback == [pc |-> "none"]
NoWrite == [pc |-> "idle"]

\* NewCallback, with the fields WritePessimisticLock sets; for a nil
\* callback isNil is TRUE.  pc is where the responder is.
NewCallback(kind) ==
  [pc |-> "proposing", kind |-> kind, isNil |-> kind = "internal",
   respOnProposed |-> kind = "WritePessimisticLock",
   doneFn |-> kind = "WritePessimisticLock",
   respCh |-> <<>>, sends |-> <<>>, calls |-> <<>>, proposed |-> <<>>, done |-> <<>>]

\* engineWriter.Write / WritePessimisticLock up to sendRaftCommand, or a
\* command of the store
Propose(kind) ==
  /\ cb.pc = "none"
  /\ cb' = NewCallback(kind)
  /\ wr' = IF kind = "internal" THEN NoWrite ELSE [pc |-> "waiting", kind |-> kind]
  /\ UNCHANGED besidesRaft

\* a checkResponse that reports no error
checkResponseNeverFails(resp) == NoErr

\* engineWriter.checkResponse: the error write returns
checkResponse(resp) ==
  IF GetError(resp) # NoErr THEN "RaftError" ELSE NoErr

\* resp := cmd.Callback.Wait(); return writer.checkResponse(resp)
WaitReturn ==
  /\ wr.pc = "waiting"
  /\ cb.respCh # <<>>
  /\ wr' = [pc |-> "returned", kind |-> wr.kind, resp |-> Head(cb.respCh),
            ret |-> checkResponse(Head(cb.respCh)), doneBefore |-> cb.done # <<>>]
  /\ cb' = [cb EXCEPT !.respCh = Tail(@)]
  /\ UNCHANGED besidesRaft

\* Callback.MaybeResponseOnProposed; the send waits for room in respCh
MaybeResponseOnProposed(resp) ==
  /\ cb.pc = "proposing"
  /\ IF ~cb.isNil /\ cb.respOnProposed
     THEN /\ Len(cb.respCh) < RespChCap
          /\ cb' = [cb EXCEPT !.pc = "applying", !.proposed = <<resp>>,
                              !.respCh = Append(@, resp),
                              !.sends = Append(@, [by |-> "MaybeResponseOnProposed", resp |-> resp])]
     ELSE cb' = [cb EXCEPT !.pc = "applying", !.proposed = <<resp>>]
  /\ UNCHANGED <<wr, besidesRaft>>

\* the peer answers the command without a response on proposal
SkipProposed ==
  /\ cb.pc = "proposing"
  /\ cb' = [cb EXCEPT !.pc = "applying"]
  /\ UNCHANGED <<wr, besidesRaft>>

\* Callback.Done up to its send: cb.respCh <- resp
DoneSend(resp) ==
  /\ cb.pc = "applying"
  /\ IF cb.isNil
     THEN cb' = [cb EXCEPT !.pc = "finished", !.done = <<resp>>]
     ELSE /\ Len(cb.respCh) < RespChCap
          /\ cb' = [cb EXCEPT !.pc = "doneFn", !.done = <<resp>>,
                              !.respCh = Append(@, resp),
                              !.sends = Append(@, [by |-> "Done", resp |-> resp])]
  /\ UNCHANGED <<wr, besidesRaft>>

\* Callback.Done after its send: if cb.doneFn != nil { cb.doneFn() }
DoneFn ==
  /\ cb.pc = "doneFn"
  /\ cb' = [cb EXCEPT !.pc = "finished",
                      !.calls = IF cb.doneFn
                                THEN Append(@, [by |-> "Done", sends |-> Len(cb.sends)]) ELSE @]
  /\ UNCHANGED <<wr, besidesRaft>>

(***************************************************************************)
(* Engine.loadShards: the parents of the shard metas are loaded and        *)
(* recovered as one batch of tasks, then the shards themselves as another. *)
(* Here a shard is what the batches need of it: its id, its version and    *)
(* the opening of its files that made it.                                  *)
(***************************************************************************)
MetaIDs == {1, 2, 3}
ParentIDs == {Min(MetaIDs), Max(MetaIDs)}
MetaVers == {1, 2}
NilMeta == [isNil |-> TRUE]
ParentMeta(id) == [isNil |-> FALSE, ID |-> id, Ver |-> Min(MetaVers)]
\* the maps of shard metas a caller may pass: a shard is newer than a parent
\* of its own id
ShardMetaMaps ==
  UNION {{m \in [S -> [ID : MetaIDs, Ver : MetaVers,
                       parent : {NilMeta} \cup {ParentMeta(p) : p \in ParentIDs}]] :
            \A id \in S : /\ m[id].ID = id
                          /\ ~m[id].parent.isNil /\ m[id].parent.ID = id
                                => m[id].Ver > m[id].parent.Ver}
         : S \in (SUBSET MetaIDs) \ {{}}}

NoShard == [loaded |-> FALSE]

\* the tasks of parentsBT when every meta with a parent appends one
ParentTasksPerMeta(metas, order) ==
  LET idx == {i \in DOMAIN order : ~metas[order[i]].parent.isNil}
      at == Ascending(idx)
  IN [k \in DOMAIN at |-> metas[order[at[k]]].parent]

\* the tasks of parentsBT: the range over shardMetas visits the metas in
\* `order` and appends a task for a parent whose ID is not yet in parents
ParentTasks(metas, order) ==
  LET has(i) == ~metas[order[i]].parent.isNil
      idx == {i \in DOMAIN order :
                /\ has(i)
                /\ \A j \in DOMAIN order :
                      j < i /\ has(j) => metas[order[j]].parent.ID # metas[order[i]].parent.ID}
      at == Ascending(idx)
  IN [k \in DOMAIN at |-> metas[order[at[k]]].parent]

\* the tasks of bt: one for every meta.  BatchSchedule runs them in any
\* order, so they are kept by ascending id whatever the order of the range
MainTasks(metas) ==
  LET ids == Ascending(DOMAIN metas)
  IN [k \in DOMAIN ids |-> [isNil |-> FALSE, ID |-> ids[k], Ver |-> metas[ids[k]].Ver]]

\* loadShards up to the first BatchSchedule; handler says whether
\* en.opt.RecoverHandler is set
LoadShardsBegin(metas, order, handler) ==
  /\ ls.pc = "idle"
  /\ ls' = [pc |-> "parents", metas |-> metas, handler |-> handler,
            parentsBT |-> ParentTasks(metas, order), bt |-> MainTasks(metas),
            todo |-> DOMAIN ParentTasks(metas, order),
            shardMap |-> [id \in MetaIDs |-> NoShard], opens |-> 0,
            log |-> <<>>, ret |-> NoErr]
  /\ UNCHANGED besidesLoad

\* a task of the batch being scheduled: loadShard, which returns the shard
\* of the map when it has the meta's version and else opens the files and
\* stores a new shard, then Recover when there is a handler
RunTask(k, loadOK, recoverOK) ==
  LET meta == IF ls.pc = "parents" THEN ls.parentsBT[k] ELSE ls.bt[k]
      oldVal == ls.shardMap[meta.ID]
      reused == oldVal.loaded /\ oldVal.Ver = meta.Ver
      loadErr == IF reused \/ loadOK THEN NoErr ELSE "loadFileFromS3"
      shard == IF reused THEN oldVal
               ELSE [loaded |-> TRUE, Ver |-> meta.Ver, opening |-> ls.opens + 1]
      recovered == loadErr = NoErr /\ ls.handler
      err == IF loadErr # NoErr THEN loadErr
             ELSE IF recovered /\ ~recoverOK THEN "Recover" ELSE NoErr
  IN /\ ls.pc \in {"parents", "main"}
     /\ k \in ls.todo
     /\ ls' = [ls EXCEPT !.todo = @ \ {k},
                         !.opens = IF reused THEN @ ELSE @ + 1,
                         !.shardMap[meta.ID] = IF loadErr = NoErr THEN shard ELSE @,
                         !.log = Append(@, [batch |-> ls.pc, meta |-> meta, before |-> oldVal,
                                            after |-> IF loadErr = NoErr THEN shard ELSE oldVal,
                                            opened |-> ~reused, recovered |-> recovered,
                                            err |-> err])]
     /\ UNCHANGED besidesLoad

\* the errors of the tasks of a batch that failed
Failures(batch) == {ls.log[i].err : i \in {j \in DOMAIN ls.log :
                                            ls.log[j].batch = batch /\ ls.log[j].err # NoErr}}

\* BatchSchedule returns: with the error of a failed task, or with nil when
\* every task ran and none failed.  After the parents' batch loadShards
\* returns the error or goes on to the main batch.
BatchReturn(err) ==
  /\ ls.pc \in {"parents", "main"}
  /\ IF Failures(ls.pc) = {} THEN ls.todo = {} /\ err = NoErr ELSE err \in Failures(ls.pc)
  /\ ls' = IF err # NoErr \/ ls.pc = "main"
           THEN [ls EXCEPT !.pc = "returned", !.ret = err, !.todo = {}]
           ELSE [ls EXCEPT !.pc = "main", !.todo = DOMAIN ls.bt]
  /\ UNCHANGED besidesLoad

(***************************************************************************)
(* GetTS of the mock PD.  tsMu is held for the whole call, so the calls    *)
(* run one after another; the clock each call reads is any value, before,  *)
(* at or after the one the call before read.                               *)
(***************************************************************************)
\* time.Now() in milliseconds, as the calls may read it
Clock == (0 - 1)..MaxClock

\* var tsMu: physicalTS and logicalTS are 0; log holds what GetTS returned
NoTS == [physicalTS |-> 0, logicalTS |-> 0, log |-> <<>>]

\* a GetTS that counts logically only while the clock shows physicalTS
NextTSFollowsClock(s, now) ==
  IF s.physicalTS = now
  THEN [s EXCEPT !.logicalTS = @ + 1]
  ELSE [s EXCEPT !.physicalTS = now, !.logicalTS = 0]

\* the body of GetTS between Lock and Unlock, now being what the clock shows
NextTS(s, now) ==
  IF s.physicalTS >= now
  THEN [s EXCEPT !.logicalTS = @ + 1]
  ELSE [s EXCEPT !.physicalTS = now, !.logicalTS = 0]

GetTS(now) ==
  /\ Len(ts.log) < MaxTSCalls
  /\ ts' = [NextTS(ts, now) EXCEPT
              !.log = Append(@, [now |-> now, physical |-> NextTS(ts, now).physicalTS,
                                 logical |-> NextTS(ts, now).logicalTS])]
  /\ UNCHANGED besidesTS

(***************************************************************************)
(* MockPD.UpdateGCSafePoint: a load and a compare-and-swap in a loop, run  *)
(* by callers that take their steps in any order.                          *)
(***************************************************************************)
Callers == {1, 2}
SafePoints == 0..MaxSafePoint
Idle == [pc |-> "idle"]

\* a new MockPD: gcSafePoint is 0.  stores holds every value stored, log
\* every call that returned
NoGC == [gcSafePoint |-> 0, call |-> [p \in Callers |-> Idle], stores |-> <<>>, log |-> <<>>]

\* a caller enters UpdateGCSafePoint
UpdateGCSafePoint(p, safePoint) ==
  /\ gc.call[p].pc = "idle"
  /\ Len(gc.log) + Cardinality({q \in Callers : gc.call[q].pc # "idle"}) < MaxGCCalls
  /\ gc' = [gc EXCEPT !.call[p] = [pc |-> "load", safePoint |-> safePoint, tries |-> 0]]
  /\ UNCHANGED besidesGC

\* old := atomic.LoadUint64(&pd.gcSafePoint); if safePoint <= old { return old, nil }
GCLoad(p) ==
  LET c == gc.call[p]
      old == gc.gcSafePoint
  IN /\ c.pc = "load"
     /\ gc' = IF c.safePoint <= old
              THEN [gc EXCEPT !.call[p] = Idle,
                              !.log = Append(@, [p |-> p, safePoint |-> c.safePoint, old |-> old,
                                                 ret |-> old, swapped |-> FALSE,
                                                 tries |-> c.tries, stored |-> gc.gcSafePoint])]
              ELSE [gc EXCEPT !.call[p] = [c EXCEPT !.pc = "cas"] @@ [old |-> old]]
     /\ UNCHANGED besidesGC

\* a store in place of the compare-and-swap
GCStore(p) ==
  LET c == gc.call[p]
  IN /\ c.pc = "cas"
     /\ gc' = [gc EXCEPT !.gcSafePoint = c.safePoint,
                         !.stores = Append(@, c.safePoint),
                         !.call[p] = Idle,
                         !.log = Append(@, [p |-> p, safePoint |-> c.safePoint, old |-> c.old,
                                            ret |-> c.safePoint, swapped |-> TRUE,
                                            tries |-> c.tries, stored |-> c.safePoint])]
     /\ UNCHANGED besidesGC

\* if atomic.CompareAndSwapUint64(&pd.gcSafePoint, old, safePoint) { return safePoint, nil }
GCCompareAndSwap(p) ==
  LET c == gc.call[p]
  IN /\ c.pc = "cas"
     /\ gc' = IF gc.gcSafePoint = c.old
              THEN [gc EXCEPT !.gcSafePoint = c.safePoint,
                              !.stores = Append(@, c.safePoint),
                              !.call[p] = Idle,
                              !.log = Append(@, [p |-> p, safePoint |-> c.safePoint, old |-> c.old,
                                                 ret |-> c.safePoint, swapped |-> TRUE,
                                                 tries |-> c.tries, stored |-> c.safePoint])]
              ELSE [gc EXCEPT !.call[p] = [pc |-> "load", safePoint |-> c.safePoint,
                                           tries |-> c.tries + 1]]
     /\ UNCHANGED besidesGC

(***************************************************************************)
(* MockRegionManager: regions of the key space and their splits.  A key is *)
(* a number; 0 is the empty key, which as an end key means "no end".       *)
(***************************************************************************)
RawKeys == 1..MaxRawKey
UserKeys == 0..1

\* codec.EncodeBytes keeps the order of keys and never yields the empty key
EncodeBytes(key) == 2 * key + 1

\* the sorted lists of distinct keys handed to splitKeys
SplitKeyLists ==
  {<<k>> : k \in RawKeys} \cup {s \in RawKeys \X RawKeys : s[1] < s[2]}

Region(id, startKey, endKey, confVer, version) ==
  [Id |-> id, StartKey |-> startKey, EndKey |-> endKey, ConfVer |-> confVer, Version |-> version]

regionContainsKey(r, key) == r.StartKey <= key /\ (key < r.EndKey \/ r.EndKey = 0)

\* the half-open ranges of two regions share a key
RegionsOverlap(a, b) ==
  /\ (b.EndKey = 0 \/ a.StartKey < b.EndKey)
  /\ (a.EndKey = 0 \/ b.StartKey < a.EndKey)

\* regionTree.Put: the region takes the place of the regions it overlaps
TreePut(tree, r) == {x \in tree : ~RegionsOverlap(x, r) /\ x.Id # r.Id} \cup {r}

\* regionTree.Iterate(start, nil, f): the regions from the one that holds
\* start on, by ascending start key
RECURSIVE TreeOrder(_)
TreeOrder(tree) ==
  IF tree = {} THEN <<>>
  ELSE LET first == CHOOSE r \in tree : \A x \in tree : r.StartKey <= x.StartKey
       IN <<first>> \o TreeOrder(tree \ {first})

TreeIterate(tree, start) == TreeOrder({r \in tree : r.EndKey = 0 \/ start < r.EndKey})

\* NewMockRegionManager
NoRM == [id |-> 1, regions |-> <<>>, tree |-> {}, bootstrapped |-> FALSE,
         call |-> [p \in Callers |-> Idle], log |-> <<>>]

SetRegion(regions, r) == [i \in DOMAIN regions \cup {r.Id} |-> IF i = r.Id THEN r ELSE regions[i]]

\* Bootstrap with a region of the whole key space whose id came from AllocID
Bootstrap ==
  LET region == Region(rm.id + 1, 0, 0, 1, 1)
  IN /\ ~rm.bootstrapped
     /\ rm' = [rm EXCEPT !.id = @ + 1, !.bootstrapped = TRUE,
                         !.regions = SetRegion(@, region), !.tree = TreePut(@, region)]
     /\ UNCHANGED besidesRM

SplitsStarted == Len(rm.log) + Cardinality({q \in Callers : rm.call[q].pc # "idle"})

\* split, up to the release of the read lock: the old region is read and the
\* two halves are built from it.  The caller passes a key inside the region
\* and a new region id it took from AllocID.
splitRead(p, regionID, key) ==
  LET old == rm.regions[regionID]
      newRegionID == rm.id + 1
      left == Region(old.Id, old.StartKey, key, old.ConfVer, old.Version + 1)
      right == Region(newRegionID, key, old.EndKey, 1, 1)
  IN /\ rm.bootstrapped /\ rm.call[p].pc = "idle" /\ SplitsStarted < MaxSplits
     /\ old.StartKey < key /\ (key < old.EndKey \/ old.EndKey = 0)
     /\ rm' = [rm EXCEPT !.id = newRegionID,
                         !.call[p] = [pc |-> "put", old |-> old, left |-> left, right |-> right,
                                      before |-> rm.regions]]
     /\ UNCHANGED besidesRM

Split(p, regionID, key) == splitRead(p, regionID, EncodeBytes(key))

SplitRaw(p, regionID, rawKey) == splitRead(p, regionID, rawKey)

\* split, under the write lock: both halves are put
splitPut(p) ==
  LET c == rm.call[p]
  IN /\ c.pc = "put"
     /\ rm' = [rm EXCEPT !.regions = SetRegion(SetRegion(@, c.left), c.right),
                         !.tree = TreePut(TreePut(@, c.left), c.right),
                         !.call[p] = Idle,
                         !.log = Append(@, [old |-> <<c.old>>, new |-> <<c.left, c.right>>,
                                            before |-> c.before,
                                            stale |-> rm.regions[c.old.Id] # c.old])]
     /\ UNCHANGED besidesRM

\* the keys of the list that come before the first one at or past the end of
\* the region
KeysInside(r, keys) ==
  Cardinality({j \in DOMAIN keys : \A m \in 1..j : ~(r.EndKey > 0 /\ keys[m] >= r.EndKey)})

\* the callback of splitKeys on one region after the other
RECURSIVE splitEach(_, _, _, _)
splitEach(regs, keys, id, newRegions) ==
  IF regs = <<>> THEN [newRegions |-> newRegions, id |-> id]
  ELSE
    LET region == Head(regs)
        i == KeysInside(region, keys)
        taken == SubSeq(keys, 1, i)
        rest == SubSeq(keys, i + 1, Len(keys))
        splits == IF taken # <<>> /\ region.StartKey = taken[1] THEN Tail(taken) ELSE taken
        n == Len(splits)
        leftPart == <<Region(region.Id, region.StartKey, splits[1],
                            region.ConfVer, region.Version + 1)>>
        middle == [j \in 1..(n - 1) |-> Region(id + 2 * j - 1, splits[j], splits[j + 1], 1, 1)]
        hasLast == splits[n] # region.EndKey
        lastPart == IF hasLast
                    THEN <<Region(id + 2 * n - 1, splits[n], region.EndKey, 1, 1)>>
                    ELSE <<>>
    IN IF splits = <<>>
       THEN splitEach(Tail(regs), rest, id, newRegions)
       ELSE splitEach(Tail(regs), rest, IF hasLast THEN id + 2 * n ELSE id + 2 * (n - 1),
                      newRegions \o leftPart \o middle \o lastPart)

RECURSIVE PutAll(_, _)
PutAll(regions, rs) == IF rs = <<>> THEN regions ELSE PutAll(SetRegion(regions, Head(rs)), Tail(rs))

RECURSIVE TreePutAll(_, _)
TreePutAll(tree, rs) == IF rs = <<>> THEN tree ELSE TreePutAll(TreePut(tree, Head(rs)), Tail(rs))

\* splitKeys, the whole of it under the write lock
splitKeys(keys) ==
  LET visited == TreeIterate(rm.tree, keys[1])
      res == splitEach(visited, keys, rm.id, <<>>)
  IN /\ rm.bootstrapped /\ SplitsStarted < MaxSplits
     /\ rm' = [rm EXCEPT !.id = res.id,
                         !.regions = PutAll(@, res.newRegions),
                         !.tree = TreePutAll(@, res.newRegions),
                         !.log = Append(@, [old |-> visited, new |-> res.newRegions,
                                            before |-> rm.regions, stale |-> FALSE])]
     /\ UNCHANGED besidesRM

(***************************************************************************)
(* The engine after OpenEngine built it, before any shard is loaded.       *)
(***************************************************************************)
\* the shards, the channels and the histories of an engine that serves no shard yet
InitData ==
  /\ shardMap = [id \in ShardIDs |-> Nil]
  /\ shards = <<>> /\ memTbls = <<>> /\ memSlices = <<>> /\ l0Slices = <<>> /\ tbls = <<>>
  /\ snaps = <<>> /\ snapHist = <<>>
  /\ guards = <<>> /\ epoch = 0 /\ resources = <<>>
  /\ flushCh = <<>> /\ flushResultCh = <<>> /\ tf = NoTrigger
  /\ count = [loads |-> 0, writes |-> 0, removes |-> 0, compactions |-> 0, triggers |-> 0]
  /\ wlog = <<>> /\ removed = <<>>
  /\ wb = NewWriteBatch /\ wbRet = NoCall /\ wbTwin = NewWriteBatch
  /\ flushLog = <<>> /\ trigLog = <<>> /\ published = <<>>
  /\ rsRet = NoRemove
  /\ latest = 0 /\ allocLog = <<>>
  /\ cwb = NewCustomWriteBatch /\ cwbLog = <<>>
  /\ ns = NoSnap /\ fr = NoPublish
  /\ cb = NoCallback /\ wr = NoWrite
  /\ ls = NoLoad
  /\ ts = NoTS
  /\ gc = NoGC
  /\ rm = NoRM

Init ==
  /\ InitData
  /\ eng = [e \in Engines |-> IF e = TheEngine THEN OpenedEngine(DefaultOptions) ELSE NoEngine]
  /\ dirLock = TheEngine
  /\ panics = {}

\* before any OpenEngine
InitOpen ==
  /\ InitData
  /\ eng = [e \in Engines |-> NoEngine]
  /\ dirLock = Nil
  /\ panics = {}

Values == 1..MaxWrites
\* the entries a caller may write: every Put and Delete the version rule accepts or rejects
Writes(n) ==
  {PutValue(v, n) : v \in Versions} \cup {DeleteValue(v) : v \in Versions}

(***************************************************************************)
(* The whole engine.                                                       *)
(***************************************************************************)
Next ==
  \/ \E ver \in ShardVers : loadShard(ver)
  \/ \E o \in DOMAIN shards, cf \in CFs, key \in Keys, size \in EntrySizes :
        \E vs \in Writes(count.writes + 1) : Write(o, cf, key, vs, size)
  \/ \E o \in DOMAIN shards : PreSplit(o)
  \/ FlushMemTable
  \/ FlushResult
  \/ \E o \in DOMAIN shards : Compaction(o)
  \/ \E o \in DOMAIN shards : NewSnapAccess(o)
  \/ \E s \in DOMAIN snaps : Discard(s)
  \/ \E s \in DOMAIN snaps, cf \in CFs, key \in Keys, version \in Versions :
        Get(s, cf, key, version)
  \/ \E id \in ShardIDs, removeFile \in BOOLEAN : RemoveShard(id, removeFile)
  \/ \E r \in DOMAIN resources : Reclaim(r)
  \/ AdvanceEpoch
  \/ \E o \in DOMAIN shards, skipCnt \in 0..1 : TriggerFlushBegin(o, skipCnt)
  \/ TriggerFlushSend
  \/ TriggerFlushEnd
  \/ \E cf \in CFs, key \in Keys, v \in Versions : WBPut(cf, key, PutValue(v, 1))
  \/ \E cf \in CFs, key \in Keys, v \in Versions : WBDelete(cf, key, v)
  \/ \E key \in PropKeys, val \in Values : WBSetProperty(key, val)
  \/ WBReset

Spec == Init /\ [][Next]_vars

(***************************************************************************)
(* The read path: one shard, loaded once, written, split, flushed and      *)
(* compacted under one snapshot that is read at every step.                *)
(***************************************************************************)
NextRead ==
  \/ loadShard(Min(ShardVers))
  \/ \E o \in DOMAIN shards, cf \in CFs, key \in Keys :
        \E vs \in Writes(count.writes + 1) : Write(o, cf, key, vs, 1)
  \/ \E o \in DOMAIN shards : PreSplit(o)
  \/ FlushMemTable
  \/ FlushResult
  \/ \E o \in DOMAIN shards : Compaction(o)
  \/ \E o \in DOMAIN shards : snaps = <<>> /\ NewSnapAccess(o)
  \/ \E s \in DOMAIN snaps, cf \in CFs, key \in Keys, version \in Versions :
        Get(s, cf, key, version)

SpecRead == Init /\ [][NextRead]_vars

(***************************************************************************)
(* The read path with MultiGet.                                            *)
(***************************************************************************)
NextMultiGet ==
  \/ loadShard(Min(ShardVers))
  \/ \E o \in DOMAIN shards, cf \in CFs, key \in Keys :
        \E vs \in Writes(count.writes + 1) : Write(o, cf, key, vs, 1)
  \/ FlushMemTable
  \/ FlushResult
  \/ \E o \in DOMAIN shards : snaps = <<>> /\ NewSnapAccess(o)
  \/ \E s \in DOMAIN snaps, cf \in CFs, keys \in KeyLists, version \in Versions :
        MultiGet(s, cf, keys, version)

SpecMultiGet == Init /\ [][NextMultiGet]_vars

(***************************************************************************)
(* Publication: a shard is loaded and reloaded, written with entries that  *)
(* fill a memtable each, put into PreSplit and flushed, under snapshots    *)
(* that come and go.                                                       *)
(***************************************************************************)
NextPublish ==
  \/ \E ver \in ShardVers : loadShard(ver)
  \/ \E o \in DOMAIN shards :
        Write(o, Max(CFs), Min(Keys), PutValue(0, count.writes + 1), MaxMemTableSize)
  \/ \E o \in DOMAIN shards : PreSplit(o)
  \/ FlushMemTable
  \/ FlushResult
  \/ \E o \in DOMAIN shards : NewSnapAccess(o)
  \/ \E s \in DOMAIN snaps : Discard(s)

SpecPublish == Init /\ [][NextPublish]_vars

(***************************************************************************)
(* Flushing: one shard is written with entries that fill a memtable each   *)
(* and flushed by the workers and by TriggerFlush, under snapshots that    *)
(* come and go; the reclaimer frees the flushed memtables.                 *)
(***************************************************************************)
NextFlush ==
  \/ loadShard(Min(ShardVers))
  \/ \E o \in DOMAIN shards :
        Write(o, Max(CFs), Min(Keys), PutValue(0, count.writes + 1), MaxMemTableSize)
  \/ FlushMemTable
  \/ FlushResult
  \/ \E o \in DOMAIN shards : NewSnapAccess(o)
  \/ \E s \in DOMAIN snaps : Discard(s)
  \/ \E r \in DOMAIN resources : Reclaim(r)
  \/ \E o \in DOMAIN shards, skipCnt \in 0..1 : TriggerFlushBegin(o, skipCnt)
  \/ TriggerFlushSend
  \/ TriggerFlushEnd

SpecFlush == Init /\ [][NextFlush]_vars

(***************************************************************************)
(* TriggerFlush: a shard that was never flushed is written with entries    *)
(* that fill half a memtable or a whole one, its memtables are flushed by  *)
(* the two workers, and TriggerFlush is called at any moment.              *)
(***************************************************************************)
NextTrigger ==
  \/ loadShard(FreshVer)
  \/ \E o \in DOMAIN shards, size \in EntrySizes :
        Write(o, Max(CFs), Min(Keys), PutValue(0, count.writes + 1), size)
  \/ FlushMemTable
  \/ FlushResult
  \/ \E o \in DOMAIN shards, skipCnt \in 0..1 : TriggerFlushBegin(o, skipCnt)
  \/ TriggerFlushSend
  \/ TriggerFlushEnd

SpecTrigger == Init /\ [][NextTrigger]_vars

(***************************************************************************)
(* One raft command of each kind, answered by its peer in every order the  *)
(* writer and the peer can take their steps.                               *)
(***************************************************************************)
NextRaft ==
  \/ \E kind \in Kinds : Propose(kind)
  \/ WaitReturn
  \/ \E resp \in Responses : MaybeResponseOnProposed(resp)
  \/ SkipProposed
  \/ \E resp \in Responses : DoneSend(resp)
  \/ DoneFn

SpecRaft == Init /\ [][NextRaft]_vars

(***************************************************************************)
(* One loadShards call on any map of shard metas, its tasks in any order,  *)
(* any of them failing.                                                    *)
(***************************************************************************)
NextShards ==
  \/ \E metas \in ShardMetaMaps : \E order \in Orders(DOMAIN metas), handler \in BOOLEAN :
        LoadShardsBegin(metas, order, handler)
  \/ \E k \in MetaIDs : \E loadOK, recoverOK \in BOOLEAN : RunTask(k, loadOK, recoverOK)
  \/ \E err \in {NoErr, "loadFileFromS3", "Recover"} : BatchReturn(err)

SpecShards == Init /\ [][NextShards]_vars

(***************************************************************************)
(* GetTS calls under any clock.                                            *)
(***************************************************************************)
NextGetTS == \E now \in Clock : GetTS(now)

SpecTS == Init /\ [][NextGetTS]_vars

(***************************************************************************)
(* Region splits by two callers.                                           *)
(***************************************************************************)
NextRM ==
  \/ Bootstrap
  \/ \E p \in Callers, regionID \in DOMAIN rm.regions, key \in UserKeys : Split(p, regionID, key)
  \/ \E p \in Callers, regionID \in DOMAIN rm.regions, rawKey \in RawKeys : SplitRaw(p, regionID, rawKey)
  \/ \E p \in Callers : splitPut(p)
  \/ \E keys \in SplitKeyLists : splitKeys(keys)

SpecRM == Init /\ [][NextRM]_vars

(***************************************************************************)
(* Concurrent UpdateGCSafePoint calls.                                     *)
(***************************************************************************)
NextGC ==
  \/ \E p \in Callers, safePoint \in SafePoints : UpdateGCSafePoint(p, safePoint)
  \/ \E p \in Callers : GCLoad(p)
  \/ \E p \in Callers : GCCompareAndSwap(p)

SpecGC == Init /\ [][NextGC]_vars

(***************************************************************************)
(* Snapshots taken while flush results are published, every interleaving   *)
(* of the two loads of the one with the two stores of the other.           *)
(***************************************************************************)
NextRace ==
  \/ loadShard(FreshVer)
  \/ \E o \in DOMAIN shards, size \in EntrySizes :
        Write(o, Max(CFs), Min(Keys), PutValue(0, count.writes + 1), size)
  \/ FlushMemTable
  \/ FlushResultAddL0
  \/ FlushResultRemoveMem
  \/ \E o \in DOMAIN shards : NewSnapAccessBegin(o)
  \/ NewSnapAccessEnd

SpecRace == Init /\ [][NextRace]_vars

(***************************************************************************)
(* The same with every skip count up to MaxSkip, more than the immutable   *)
(* memtables a shard of the model can have.                                *)
(***************************************************************************)
NextSkip ==
  \/ loadShard(FreshVer)
  \/ \E o \in DOMAIN shards, size \in EntrySizes :
        Write(o, Max(CFs), Min(Keys), PutValue(0, count.writes + 1), size)
  \/ FlushMemTable
  \/ FlushResult
  \/ \E o \in DOMAIN shards, skipCnt \in 0..MaxSkip : TriggerFlushBegin(o, skipCnt)
  \/ TriggerFlushSend
  \/ TriggerFlushEnd

SpecSkip == Init /\ [][NextSkip]_vars

\* the two flush workers are goroutines that run until the engine closes, and
\* a TriggerFlush call that has started goes on whenever its send can go
SpecTriggerFair ==
  /\ SpecTrigger
  /\ WF_vars(FlushMemTable) /\ WF_vars(FlushResult)
  /\ WF_vars(TriggerFlushSend) /\ WF_vars(TriggerFlushEnd)

(***************************************************************************)
(* Close: the engine is closed at any moment while a shard is written,     *)
(* rotated, flushed and TriggerFlush is called.                            *)
(***************************************************************************)
NextClose ==
  \/ loadShard(FreshVer)
  \/ \E o \in DOMAIN shards :
        Write(o, Max(CFs), Min(Keys), PutValue(0, count.writes + 1), MaxMemTableSize)
  \/ FlushMemTable
  \/ FlushResult
  \/ \E o \in DOMAIN shards : TriggerFlushBegin(o, 0)
  \/ TriggerFlushSend
  \/ TriggerFlushEnd
  \/ CloseStore(TheEngine)
  \/ CloseFlushCh(TheEngine)
  \/ CloseFlushResultCh(TheEngine)
  \/ CloseSignal(TheEngine)
  \/ CloseWait(TheEngine)
  \/ CloseRelease(TheEngine)
  \/ \E task \in eng[TheEngine].running : TaskExit(TheEngine, task)

SpecClose == Init /\ [][NextClose]_vars

(***************************************************************************)
(* Open and close: two engines are opened on the one data directory, with  *)
(* any options and any failure of OpenEngine, and closed.                  *)
(***************************************************************************)
NextOpen ==
  \/ \E e \in Engines, opt \in Options, optionsOK \in BOOLEAN : OpenEngineLock(e, opt, optionsOK)
  \/ \E e \in Engines, cacheOK \in BOOLEAN : OpenEngineBuild(e, cacheOK)
  \/ \E e \in Engines, metasOK \in BOOLEAN : OpenEngineLoad(e, metasOK)
  \/ \E e \in Engines : CloseStore(e)
  \/ \E e \in Engines : CloseFlushCh(e)
  \/ \E e \in Engines : CloseFlushResultCh(e)
  \/ \E e \in Engines : CloseSignal(e)
  \/ \E e \in Engines : CloseWait(e)
  \/ \E e \in Engines : CloseRelease(e)
  \/ \E e \in Engines : \E task \in eng[e].running : TaskExit(e, task)

SpecOpen == InitOpen /\ [][NextOpen]_vars

(***************************************************************************)
(* Loading: shards are loaded and reloaded from metas whose files the      *)
(* range over the file map visits in any order.                            *)
(***************************************************************************)
LoadVers == {FreshVer, WideVer} \cup ShardVers

NextLoad ==
  \E ver \in LoadVers : \E fids \in Orders(ShardMeta(ver).files) : loadShardIn(ver, fids)

SpecLoad == Init /\ [][NextLoad]_vars

(***************************************************************************)
(* Id allocation: AllocID is called with any positive counts.              *)
(***************************************************************************)
NextAlloc == \E cnt \in 1..MaxCount : AllocID(cnt)

SpecAlloc == Init /\ [][NextAlloc]_vars

(***************************************************************************)
(* A customWriteBatch is filled with any operations.                       *)
(***************************************************************************)
NextCustom ==
  \/ \E key \in Keys : Prewrite(key)
  \/ \E key \in Keys : Commit(key)
  \/ \E key \in Keys : Rollback(key)
  \/ \E key \in Keys : PessimisticLock(key)
  \/ \E key \in Keys : PessimisticRollback(key)

SpecCustom == Init /\ [][NextCustom]_vars

(***************************************************************************)
(* Reclamation: a shard is loaded, reloaded, compacted and removed under   *)
(* snapshots that come and go, while the epoch advances and the reclaimer  *)
(* runs the destructors that are due.                                      *)
(***************************************************************************)
NextReclaim ==
  \/ \E ver \in ShardVers : loadShard(ver)
  \/ \E o \in DOMAIN shards : Compaction(o)
  \/ \E o \in DOMAIN shards : NewSnapAccess(o)
  \/ \E s \in DOMAIN snaps : Discard(s)
  \/ \E id \in ShardIDs, removeFile \in BOOLEAN : RemoveShard(id, removeFile)
  \/ \E r \in DOMAIN resources : Reclaim(r)
  \/ AdvanceEpoch

SpecReclaim == Init /\ [][NextReclaim]_vars

(***************************************************************************)
(* A write batch being filled and reused.                                  *)
(***************************************************************************)
NextBatch ==
  \/ \E cf \in CFs, v \in Versions, n \in Values : WBPut(cf, Min(Keys), PutValue(v, n))
  \/ \E cf \in CFs, v \in Versions : WBDelete(cf, Min(Keys), v)
  \/ WBReset

SpecBatch == Init /\ [][NextBatch]_vars

(***************************************************************************)
(* A write batch with a property, taking accepted and rejected operations. *)
(***************************************************************************)
NextFrame ==
  \/ \E cf \in CFs, v \in Versions, n \in Values : WBPut(cf, Min(Keys), PutValue(v, n))
  \/ \E cf \in CFs, v \in Versions : WBDelete(cf, Min(Keys), v)
  \/ WBSetProperty("a", Min(Values))
  \/ WBReset

SpecFrame == Init /\ [][NextFrame]_vars

(***************************************************************************)
(* A write batch reused after Reset: entries the version rule accepts,     *)
(* properties, and Reset.                                                  *)
(***************************************************************************)
AcceptedVer(cf) == IF cfConfs[cf].Managed THEN MaxVersion ELSE 0
NextReuse ==
  \/ \E cf \in CFs, key \in Keys : WBPut(cf, key, PutValue(AcceptedVer(cf), Min(Values)))
  \/ \E cf \in CFs, key \in Keys : WBDelete(cf, key, AcceptedVer(cf))
  \/ \E key \in PropKeys, val \in Values : WBSetProperty(key, val)
  \/ WBReset

SpecReuse == Init /\ [][NextReuse]_vars

(***************************************************************************)
(* What the claims speak of                                                *)
(***************************************************************************)
LiveSnaps == {s \in DOMAIN snaps : ~snaps[s].discarded}
\* the read version Get works with
AsOf(version) == IF version = 0 THEN MaxUint64 ELSE version
\* the writes applied to the shard of snapshot s before s was created
AppliedBefore(s) == SubSeq(wlog[snaps[s].shard], 1, snapHist[s].wlen)
\* the newest write of (cf, key) with version <= ver in a log: the highest
\* version, and the latest of the writes of that version
Newest(log, cf, key, ver) ==
  LET c == {i \in DOMAIN log : log[i].cf = cf /\ log[i].key = key /\ log[i].vs.Version <= ver}
  IN IF c = {} THEN EmptyValue
     ELSE log[CHOOSE i \in c : \A j \in c :
                 \/ log[j].vs.Version < log[i].vs.Version
                 \/ log[j].vs.Version = log[i].vs.Version /\ j <= i].vs
\* the writes of (cf, key) came in version order
InVersionOrder(log, cf, key) ==
  \A i, j \in DOMAIN log :
     i < j /\ log[i].cf = cf /\ log[j].cf = cf /\ log[i].key = key /\ log[j].key = key
        => log[i].vs.Version <= log[j].vs.Version
NotFound(vs) == ~Valid(vs) \/ IsDeleted(vs.Meta)

\* the sources of snapshot s for (cf, key) in the order claimed: the
\* splitting memtable of the key, the memtables and the L0 tables captured
\* at creation, the non-empty levels of the CF in ascending order
Sources(s, cf, key) ==
  LET h == snapHist[s]
      o == snaps[s].shard
      idx == getSplittingIndex(key)
      lv == SelectSeq(Ascending(Levels), LAMBDA l : Len(shards[o].cfs[cf][l]) > 0)
  IN (IF h.splitting # <<>> THEN <<Src("splitting", idx, h.splitting[idx + 1])>> ELSE <<>>)
     \o [i \in 1..Len(h.memTables) |-> Src("mem", i - 1, h.memTables[i])]
     \o [i \in 1..Len(h.l0Tables) |-> Src("l0", i - 1, h.l0Tables[i])]
     \o [i \in 1..Len(lv) |-> Src("level", lv[i], LevelCandidate(shards[o].cfs[cf][lv[i]], key))]
\* what one source holds for (cf, key) as of ver
Read(src, cf, key, ver) ==
  CASE src.kind \in {"splitting", "mem"} -> RunGet(memTbls[src.id].data, cf, key, ver)
    [] src.kind = "l0" -> RunGet(tbls[src.id].data, cf, key, ver)
    [] src.kind = "level" ->
         IF src.id = Nil THEN EmptyValue ELSE RunGet(tbls[src.id].data, cf, key, ver)

\* C1: Get(cf, key, v) on a snapshot returns the newest write of (cf, key)
\* with version <= v among the writes applied before the snapshot was
\* created, key-not-found when there is none or it is a tombstone: no write
\* applied after the creation shows.  (Stated for keys written in version
\* order, where "newest" has one meaning.)
C1_SnapshotIsolation ==
  \A s \in LiveSnaps, cf \in CFs, key \in Keys, version \in Versions :
     LET res == GetResult(snaps[s], cf, key, version)
         want == Newest(AppliedBefore(s), cf, key, AsOf(version))
     IN InVersionOrder(wlog[snaps[s].shard], cf, key) =>
          /\ (res.err = ErrKeyNotFound) <=> NotFound(want)
          /\ res.err = NoErr => res.item.val = want.Value /\ res.item.ver = want.Version

\* C2: getValue consults the splitting memtable of the key (when captured),
\* then the captured memtables from index 0 up, then the captured L0 tables
\* in order, then the levels 1..N of the CF in ascending order; it returns
\* the value of the first source that has a valid one, and the invalid value
\* only after every source missed.
C2_ProbeOrder ==
  \A s \in LiveSnaps, cf \in CFs, key \in Keys, version \in Versions :
     LET r == getValue(snaps[s], cf, key, AsOf(version))
         order == Sources(s, cf, key)
         n == Len(r.probes)
     IN /\ n <= Len(order)
        /\ r.probes = SubSeq(order, 1, n)
        /\ \A i \in 1..(n - 1) : ~Valid(Read(order[i], cf, key, AsOf(version)))
        /\ IF Valid(r.v)
           THEN n >= 1 /\ r.v = Read(order[n], cf, key, AsOf(version))
           ELSE n = Len(order) /\ \A i \in 1..n : ~Valid(Read(order[i], cf, key, AsOf(version)))

\* a snapshot with splitting memtables, two memtables and an L0 table whose
\* Get falls through all of them and is answered by level 2
C2_Witness ==
  \E s \in LiveSnaps, cf \in CFs, key \in Keys, version \in Versions :
     LET r == getValue(snaps[s], cf, key, AsOf(version))
     IN /\ snaps[s].splitting # <<>>
        /\ Len(memSlices[snaps[s].memTables]) >= 2
        /\ Len(l0Slices[snaps[s].l0Tables]) >= 1
        /\ Valid(r.v)
        /\ r.probes[Len(r.probes)].kind = "level"
        /\ r.probes[Len(r.probes)].pos = Max(Levels)

\* C3: Get returns ErrKeyNotFound exactly when no source has a valid value
\* or the first valid value found is a tombstone, so a tombstone in a newer
\* source shadows every put in an older one; otherwise it returns an item
\* with the key asked for and the version, meta, user meta and value of
\* that first valid value.
C3_NotFoundOrItem ==
  \A s \in LiveSnaps, cf \in CFs, key \in Keys, version \in Versions :
     LET res == GetResult(snaps[s], cf, key, version)
         order == Sources(s, cf, key)
         hits == {i \in DOMAIN order : Valid(Read(order[i], cf, key, AsOf(version)))}
         first == Read(order[Min(hits)], cf, key, AsOf(version))
     IN /\ res.err \in {NoErr, ErrKeyNotFound}
        /\ (res.err = ErrKeyNotFound) <=> (hits = {} \/ IsDeleted(first.Meta))
        /\ res.err = ErrKeyNotFound => res.item = NoItem
        /\ res.err = NoErr =>
             res.item = [key |-> key, ver |-> first.Version, meta |-> first.Meta,
                         userMeta |-> first.UserMeta, val |-> first.Value]

\* a tombstone in a memtable with a put of the same key in an older source
C3_Witness ==
  \E s \in LiveSnaps, cf \in CFs, key \in Keys, version \in Versions :
     LET res == GetResult(snaps[s], cf, key, version)
         order == Sources(s, cf, key)
         hits == {i \in DOMAIN order : Valid(Read(order[i], cf, key, AsOf(version)))}
     IN /\ res.err = ErrKeyNotFound
        /\ Cardinality(hits) >= 2
        /\ order[Min(hits)].kind = "mem"
        /\ IsDeleted(Read(order[Min(hits)], cf, key, AsOf(version)).Meta)
        /\ \E i \in hits : ~IsDeleted(Read(order[i], cf, key, AsOf(version)).Meta)

\* C6: the level tables a snapshot's Get consults are the tables of the
\* level handlers the shard had when the snapshot was created.
C6_LevelsPinned ==
  \A s \in LiveSnaps, cf \in CFs, key \in Keys, version \in Versions :
     LET r == getValue(snaps[s], cf, key, AsOf(version))
     IN \A i \in DOMAIN r.probes :
           r.probes[i].kind = "level" =>
              r.probes[i].id = LevelCandidate(snapHist[s].cfs[cf][r.probes[i].pos], key)

\* C4: WriteBatch.Put and WriteBatch.Delete reject an operation exactly when
\* its version mismatches the CF: version 0 on a managed CF, a version other
\* than 0 on an unmanaged CF.  Every other operation is accepted and
\* appended to the entry list of its CF, a Delete as a tombstone of the
\* version given.
C4_RejectIffMismatch ==
  wbRet.op \in {"Put", "Delete"} =>
     LET cf == wbRet.cf
         version == wbRet.val.Version
         mismatch == IF cfConfs[cf].Managed THEN version = 0 ELSE version # 0
     IN /\ (wbRet.err # NoErr) <=> mismatch
        /\ ~mismatch =>
             /\ Iterate(wb, cf) = Append(Iterate(wbRet.before, cf), Entry(cf, wbRet.key, wbRet.val))
             /\ wbRet.op = "Delete" =>
                  IsDeleted(wbRet.val.Meta) /\ wbRet.val.Value = Nil

\* a Delete accepted on the managed CF after another accepted operation on
\* it, and the batch holds its tombstone last
C4_Witness ==
  /\ wbRet.op = "Delete" /\ wbRet.err = NoErr /\ cfConfs[wbRet.cf].Managed
  /\ Len(wb.entries[wbRet.cf]) = MaxBatch
  /\ IsDeleted(Iterate(wb, wbRet.cf)[MaxBatch].vs.Meta)
  /\ Iterate(wb, wbRet.cf)[MaxBatch].vs.Version = MaxVersion

\* C5: the memtable slice, the L0 slice and the splitting memtables a
\* SnapAccess reads are the ones the shard had when it was created, whatever
\* rotations, flush results and reloads came later, and from its creation
\* to its Discard the SnapAccess holds one guard of its own.
C5_CapturedSlicesFixed ==
  \A s \in DOMAIN snaps :
     /\ memSlices[snaps[s].memTables] = snapHist[s].memTables
     /\ l0Slices[snaps[s].l0Tables] = snapHist[s].l0Tables
     /\ snaps[s].splitting = snapHist[s].splitting
     /\ s \in LiveSnaps =>
          /\ snaps[s].guard \in DOMAIN guards
          /\ guards[snaps[s].guard].done = 0
          /\ \A t \in DOMAIN snaps : t # s => snaps[t].guard # snaps[s].guard
          /\ \A cf \in CFs, key \in Keys, version \in Versions :
                LET r == getValue(snaps[s], cf, key, AsOf(version))
                IN \A i \in DOMAIN r.probes :
                     /\ r.probes[i].kind = "splitting" =>
                          r.probes[i].id = snapHist[s].splitting[r.probes[i].pos + 1]
                     /\ r.probes[i].kind = "mem" =>
                          r.probes[i].id = snapHist[s].memTables[r.probes[i].pos + 1]
                     /\ r.probes[i].kind = "l0" =>
                          r.probes[i].id = snapHist[s].l0Tables[r.probes[i].pos + 1]

\* a snapshot taken before a rotation and a flush result, and a snapshot
\* with splitting memtables, both of a shard that was reloaded since
C5_Witness ==
  \E s, t \in LiveSnaps :
     LET o == snaps[s].shard
     IN /\ snaps[t].shard = o /\ snaps[t].splitting # <<>>
        /\ shardMap[shards[o].ID] # o
        /\ Len(snapHist[s].memTables) = 1
        /\ loadMemTables(o) # snapHist[s].memTables
        /\ loadL0Tables(o) # snapHist[s].l0Tables
        /\ \E m \in Range(loadMemTables(o)) : m \notin Range(snapHist[s].memTables)

\* C7: after RemoveShard no L0 table and no level table of the removed shard
\* is closed or deleted while a guard acquired before the removal is held,
\* and none is closed or deleted but by the destructor the reclaimer runs.
C7_RemovedTablesOutliveGuards ==
  \A i \in DOMAIN removed : \A t \in removed[i].tables :
     tbls[t].state # "open" =>
        /\ tbls[t].by = "reclaimer"
        /\ \A g \in removed[i].held : guards[g].done > 0

\* a shard removed under a snapshot: the snapshot was discarded since and
\* the reclaimer has deleted the tables
C7_Witness ==
  \E i \in DOMAIN removed :
     /\ removed[i].held # {}
     /\ removed[i].tables # {}
     /\ \A t \in removed[i].tables : tbls[t].state = "deleted" /\ tbls[t].by = "reclaimer"

\* C8: no table is closed or deleted but by the reclaimer, the tables of a
\* shard that loadShard replaces included, so no table a live snapshot reads
\* is closed.
C8_NoInlineClose ==
  /\ \A t \in DOMAIN tbls : tbls[t].state # "open" => tbls[t].by = "reclaimer"
  /\ \A s \in LiveSnaps :
       \A t \in Range(l0Slices[snaps[s].l0Tables]) \cup LevelTables(snaps[s].shard) :
          tbls[t].state = "open"

WriteReady(o) ==
  /\ count.writes < MaxWrites
  /\ shardMap[shards[o].ID] = o
  /\ ~shards[o].passive
  /\ Len(flushCh) < NumMemtables

\* C10: while a snapshot is outstanding a write, a send of TriggerFlush and
\* the publication of a flush result go ahead as soon as what they wait for
\* apart from snapshots is there; what waits for the snapshot is the
\* destructor of a resource queued since the snapshot's guard was acquired.
C10_SnapshotsDelayOnlyDestructors ==
  \A s \in LiveSnaps :
     LET o == snaps[s].shard
     IN /\ WriteReady(o) =>
             ENABLED Write(o, Max(CFs), Min(Keys), PutValue(0, count.writes + 1), MaxMemTableSize)
        /\ (tf.pc = "loop" /\ tf.i > 0 /\ Len(flushCh) < NumMemtables) => ENABLED TriggerFlushSend
        /\ Len(flushResultCh) > 0 => ENABLED FlushResult
        /\ \A r \in DOMAIN resources :
              guards[snaps[s].guard].epoch <= resources[r].epoch => ~ENABLED Reclaim(r)

\* under a snapshot: a TriggerFlush about to send, a flush result about to
\* be published, and a flushed memtable the reclaimer may not free yet
C10_Witness ==
  \E s \in LiveSnaps :
     /\ tf.pc = "loop" /\ tf.i > 0 /\ tf.shard = snaps[s].shard
     /\ Len(flushCh) < NumMemtables
     /\ Len(flushResultCh) > 0
     /\ \E r \in DOMAIN resources :
           ~resources[r].destroyed /\ guards[snaps[s].guard].epoch <= resources[r].epoch

\* the tables a TriggerFlush call sent from the memtables it read, in the
\* order it sent them
SentBy(c) ==
  LET sent == SelectSeq(flushLog, LAMBDA e : e.call = c /\ e.tbl # trigLog[c].placeholder)
  IN [k \in DOMAIN sent |-> sent[k].tbl]

\* the immutable memtables of a slice but the n sealed last, the oldest first:
\* the slice is newest first, so these are its last entries, read backwards
OldestFirstBut(mems, n) ==
  [k \in 1..Max({Len(mems) - 1 - n, 0}) |-> mems[Len(mems) + 1 - k]]

DoneCalls == {c \in DOMAIN trigLog : trigLog[c].done}

\* C11: a TriggerFlush(shard, N) that has returned has sent exactly the
\* immutable memtables of the slice it read, but the N sealed most recently,
\* the oldest first, and never the active memtable.
C11_TriggerFlushSkipsNewest ==
  \A c \in DoneCalls :
     /\ SentBy(c) = OldestFirstBut(trigLog[c].mems, trigLog[c].skipCnt)
     /\ \A k \in DOMAIN SentBy(c) : SentBy(c)[k] # trigLog[c].mems[1]

\* the tasks a TriggerFlush call sent that carry a memtable the shard never
\* held: the placeholders
PlaceholdersOf(c) ==
  {k \in DOMAIN flushLog : flushLog[k].call = c /\ flushLog[k].tbl \notin Range(trigLog[c].mems)}

TheShard == shardMap[Min(ShardIDs)]

\* one Put was accepted into the active memtable of a fresh shard, without a
\* rotation, and a TriggerFlush called after it has returned
PutThenTriggered(o) ==
  /\ shards[o].Ver = FreshVer /\ shardMap[shards[o].ID] = o
  /\ count.writes = 1
  /\ \E c \in DoneCalls :
       /\ trigLog[c].shard = o /\ trigLog[c].skipCnt = 0
       /\ trigLog[c].writes = 1 /\ Len(trigLog[c].mems) = 1

\* the shard holds one memtable and one L0 table, and a Get of the key on a
\* snapshot taken now returns the value written last
FlushedOnce(o) ==
  /\ Len(loadMemTables(o)) = 1
  /\ Len(loadL0Tables(o)) = 1
  /\ LET r == GetResult(SnapAccess(o, Nil), Max(CFs), Min(Keys), 0)
     IN r.err = NoErr /\ r.item.val = count.writes

\* C13: on a fresh shard, after one Put into the active memtable and a
\* TriggerFlush, the shard eventually holds one memtable (a fresh active one)
\* and one L0 table, and a Get of the key on a new snapshot returns the
\* value written.
C13_PutThenTriggerFlushes ==
  (TheShard # Nil /\ PutThenTriggered(TheShard)) ~> (TheShard # Nil /\ FlushedOnce(TheShard))

\* C14: the tasks of one shard that flushCh holds carry commit versions that
\* do not decrease from the head of the channel to its tail.
C14_FlushQueueVersionsAscend ==
  \A i, j \in DOMAIN flushCh :
     i < j /\ flushCh[i].shard = flushCh[j].shard
        => memTbls[flushCh[i].tbl].version <= memTbls[flushCh[j].tbl].version

\* a flush task as it travels: the shard and the memtable
Task(e) == [shard |-> e.shard, tbl |-> e.tbl]
Tasks(q) == [k \in DOMAIN q |-> Task(q[k])]
\* where table t sits in an L0 slice, 0 when it is not there
Pos(slice, t) ==
  IF t \in Range(slice) THEN CHOOSE k \in DOMAIN slice : slice[k] = t ELSE 0

LoopOrder(mems, skipCnt) ==
  [k \in 1..Max({Len(mems) - 1 - skipCnt, 0}) |-> mems[Len(mems) - skipCnt + 1 - k]]

\* C16: flushCh never holds more than NumMemtables tasks; a send of
\* TriggerFlush waits exactly while the channel holds NumMemtables tasks, and
\* the flush-build worker, which makes room, is not held up by it; a call
\* that has returned has sent every task of its loop, in the loop's order,
\* and the channel holds the tasks sent last in the order sent.
C16_FlushChBounded ==
  /\ Len(flushCh) <= NumMemtables
  /\ tf.pc = "loop" /\ tf.i > 0 =>
       /\ ENABLED TriggerFlushSend <=> Len(flushCh) < NumMemtables
       /\ Len(flushCh) = NumMemtables /\ Len(flushResultCh) < NumMemtables
             => ENABLED FlushMemTable
  /\ \A c \in DoneCalls : SentBy(c) = LoopOrder(trigLog[c].mems, trigLog[c].skipCnt)
  /\ Len(flushCh) <= Len(flushLog)
  /\ flushCh = SubSeq(Tasks(flushLog), Len(flushLog) - Len(flushCh) + 1, Len(flushLog))

\* a call that found the channel full has returned with its tasks sent
C16_Witness ==
  \E c \in DoneCalls :
     trigLog[c].queued = NumMemtables /\ Len(SentBy(c)) > 0

\* C17: no flush worker sends on a channel that Close has closed, and when
\* Close has returned every task that was sent on flushCh before Close was
\* called has had its result published.
C17_InFlightFlushesComplete ==
  /\ "runFlushMemTable" \notin panics
  /\ eng[TheEngine].pc = "closed" =>
       /\ Len(published) >= eng[TheEngine].closedAt
       /\ SubSeq(Tasks(flushLog), 1, eng[TheEngine].closedAt)
            = SubSeq(Tasks(published), 1, eng[TheEngine].closedAt)

\* C18: once Close has set the closed flag no task is sent on flushCh, so
\* none is sent on the closed flushCh: a TriggerFlush under way or called
\* later sends nothing.
C18_ClosedFlagStopsSends ==
  /\ "TriggerFlush" \notin panics
  /\ eng[TheEngine].closed = 1 => Len(flushLog) = eng[TheEngine].closedAt

\* engine e is between the acquisition of the lock by its OpenEngine and the
\* release by its failing OpenEngine or by its Close
InLifetime(e) == eng[e].pc \notin {"none", "failed", "closed"}

\* C19: the directory lock is held by an engine exactly from the acquisition
\* in its OpenEngine to the return of a failing OpenEngine or the release in
\* its Close; no task of an engine is started before the lock is acquired;
\* Close releases after it has joined every closer it waits for; so no two
\* engines are in their lifetime on the directory at once.
C19_DirLockHeldForLifetime ==
  /\ \A e \in Engines : dirLock = e <=> InLifetime(e)
  /\ \A e1, e2 \in Engines : InLifetime(e1) /\ InLifetime(e2) => e1 = e2
  /\ \A e \in Engines :
       eng[e].started # {} => eng[e].pc \notin {"none", "locked"} /\ eng[e].err \notin {"options", "lock", "cache"}
  /\ \A e \in Engines :
       eng[e].pc \in {"release", "closed"} =>
          /\ eng[e].joined = JoinPlan(eng[e].opt)
          /\ \A t \in eng[e].running : CloserOf(t) \notin Range(eng[e].joined)

\* an OpenEngine failed after it had acquired the lock, and another engine
\* was opened on the directory afterwards
C19_Witness ==
  \E e1, e2 \in Engines :
     /\ eng[e1].pc = "failed" /\ eng[e1].err \in {"cache", "metas"}
     /\ eng[e2].pc = "open"

\* C20: the S3 client task exists exactly in the engines opened with a
\* KeyID, and an engine that Close has closed has joined the S3 client exactly
\* if it had one: no task it started is left running.
C20_S3ClientJoinedIffCreated ==
  \A e \in Engines :
     /\ eng[e].pc \notin {"none", "locked", "failed"} =>
          ("s3Client" \in eng[e].started <=> eng[e].opt.KeyID)
     /\ eng[e].pc = "closed" =>
          /\ "s3Client" \in Range(eng[e].joined) <=> "s3Client" \in eng[e].started
          /\ eng[e].running = {}

\* C21: a shard that loadShard has built has its L0 tables in descending
\* order of commit version, the tables of every level of every CF in
\* ascending order of smallest key, exactly the files of its meta, and one
\* memtable, empty and unsealed, whatever the order the files were visited in.
C21_LoadedShardSorted ==
  \A o \in DOMAIN shards :
     LET l0 == loadL0Tables(o)
         mems == loadMemTables(o)
     IN /\ \A i, j \in DOMAIN l0 : i < j => tbls[l0[i]].commitTS >= tbls[l0[j]].commitTS
        /\ \A cf \in CFs, l \in Levels :
             LET lv == shards[o].cfs[cf][l]
             IN /\ \A i, j \in DOMAIN lv : i < j => tbls[lv[i]].smallest <= tbls[lv[j]].smallest
                /\ \A i \in DOMAIN lv : tbls[lv[i]].cf = cf /\ tbls[lv[i]].level = l
                /\ \A i, j \in DOMAIN lv : i # j => lv[i] # lv[j]
        /\ \A i \in DOMAIN l0 : tbls[l0[i]].cf = L0File
        /\ ShardMeta(shards[o].Ver).files = {tbls[t].fid : t \in ShardTables(o)}
        /\ Cardinality(ShardTables(o)) = Len(l0) + Cardinality(LevelTables(o))
        /\ Len(mems) = 1 /\ TableEmpty(mems[1]) /\ memTbls[mems[1]].version = 0

\* a shard was loaded whose files were visited with the older L0 file before
\* the newer one and the right table of a level before the left one
C21_Witness ==
  \E o \in DOMAIN shards :
     /\ \E i, j \in DOMAIN loadL0Tables(o) : i < j /\ loadL0Tables(o)[i] > loadL0Tables(o)[j]
     /\ \E cf \in CFs, l \in Levels :
          \E i, j \in DOMAIN shards[o].cfs[cf][l] :
             i < j /\ shards[o].cfs[cf][l][i] > shards[o].cfs[cf][l][j]

\* C22: a RemoveShard of an id the shard map holds returns no error, leaves
\* the map without the id (GetShard gives Nil) and queues one deletion of
\* that shard's files on the reclaimer; a RemoveShard of an id the map does
\* not hold returns the shard-not-found error and changes neither the map
\* nor the reclaimer's queue.
C22_RemoveShardUnmapsAndSchedules ==
  [][rsRet' # rsRet =>
       LET id == rsRet'.shardID
           n == Len(resources)
       IN IF shardMap[id] # Nil
          THEN /\ rsRet'.err = NoErr
               /\ shardMap'[id] = Nil
               /\ \A other \in ShardIDs \ {id} : shardMap'[other] = shardMap[other]
               /\ Len(resources') = n + 1
               /\ SubSeq(resources', 1, n) = resources
               /\ resources'[n + 1].res.kind = "deletion"
               /\ resources'[n + 1].res.shard = shardMap[id]
               /\ ~resources'[n + 1].destroyed
          ELSE /\ rsRet'.err = ErrShardNotFound
               /\ shardMap' = shardMap
               /\ resources' = resources]_vars

\* a loaded shard was removed
C22_Witness ==
  /\ rsRet.op = "RemoveShard" /\ rsRet.err = NoErr
  /\ GetShard(rsRet.shardID) = Nil

\* the ids of the run a call was given, taking what it returned as the base
RunOf(call) == call.ret..(call.ret + call.count - 1)

\* C23: AllocID(count) returns the base of a run of count ids, and the runs
\* of different calls share no id.
C23_AllocRunsDisjoint ==
  \A i, j \in DOMAIN allocLog :
     i # j => RunOf(allocLog[i]) \cap RunOf(allocLog[j]) = {}

\* C24: the type of a customWriteBatch is that of the first operation called
\* on it and never another; every entry of the batch was appended by an
\* operation of that type, one entry per such operation; an operation of
\* another type fails the assertion and leaves the batch as it was.
C24_OnePayloadType ==
  /\ cwbLog = <<>> <=> cwb.tp = 0
  /\ cwbLog # <<>> => cwb.tp = TypeOf(cwbLog[1])
  /\ \A i \in DOMAIN cwb.entries : TypeOf(cwb.entries[i].op) = cwb.tp
  /\ cwb.failed <=> \E i \in DOMAIN cwbLog : cwbLog[i] # cwbLog[1]
  /\ Len(cwb.entries) = Cardinality({i \in DOMAIN cwbLog : cwbLog[i] = cwbLog[1]})

\* a batch of two entries of one type has refused an operation of another
C24_Witness ==
  /\ Len(cwb.entries) > 1 /\ cwb.failed

\* what a caller can observe of a batch: NumEntries, EstimatedSize, the
\* properties and what Iterate visits for each CF
Observed(b) ==
  [num |-> NumEntries(b), size |-> EstimatedSize(b), properties |-> b.properties,
   entries |-> [cf \in CFs |-> Iterate(b, cf)]]

\* C25: right after Reset a batch has no entry, estimated size 0, no
\* property and nothing to iterate for any CF; and whatever Put, Delete and
\* SetProperty calls follow, the batch shows the same NumEntries,
\* EstimatedSize, properties and per-CF entries as a newly created batch
\* given the same calls.
C25_ResetMakesReusable ==
  /\ wbRet.op = "Reset" => Observed(wb) = Observed(NewWriteBatch)
  /\ Observed(wb) = Observed(wbTwin)

\* a batch that held entries and a property was reset and then filled
\* again to its bound in slots of the arena it had, and one property set
C25_Witness ==
  /\ wb.heap # wbTwin.heap
  /\ wbRet.op = "SetProperty"
  /\ wbRet.before.entryArenaIdx = MaxBatch
  /\ \E cf \in CFs : Len(Iterate(wb, cf)) = MaxBatch /\ Iterate(wb, cf)[1] # Iterate(wb, cf)[MaxBatch]

\* the results a Get could hand to the loop of MultiGet: an item, a key not
\* found, and an error of another kind
GetOutcomes ==
  {[item |-> [NoItem EXCEPT !.key = Min(Keys)], err |-> NoErr],
   [item |-> NoItem, err |-> ErrKeyNotFound],
   [item |-> NoItem, err |-> "other"]}

\* C26: on every snapshot and for every CF, key list and version, MultiGet
\* returns no error and as many items as keys, the i-th being the item
\* Get returns for the i-th key, nil when Get reports ErrKeyNotFound.  And
\* whatever the Gets return, the loop of MultiGet goes past every
\* ErrKeyNotFound and returns the first error of another kind, with no items.
C26_MultiGetIsGetPerKey ==
  /\ \A s \in DOMAIN snaps, cf \in CFs, keys \in KeyLists, version \in Versions :
        LET r == MultiGetResult(snaps[s], cf, keys, version)
        IN /\ r.err = NoErr
           /\ Len(r.items) = Len(keys)
           /\ \A i \in DOMAIN keys :
                 LET g == GetResult(snaps[s], cf, keys[i], version)
                 IN r.items[i] = IF g.err = ErrKeyNotFound THEN NoItem ELSE g.item
  /\ \A rs \in UNION {[1..n -> GetOutcomes] : n \in 0..NumKeys} :
        LET r == MultiGetLoop(rs)
            others == {i \in DOMAIN rs : rs[i].err \notin {NoErr, ErrKeyNotFound}}
        IN IF others = {}
           THEN r.err = NoErr /\ Len(r.items) = Len(rs)
           ELSE r.err = rs[Min(others)].err /\ r.items = <<>>

\* a snapshot on which MultiGet of two keys returns nil for the first, whose
\* newest record is a tombstone, and an item for the second
C26_Witness ==
  \E s \in DOMAIN snaps, cf \in CFs, keys \in KeyLists :
     /\ Len(keys) = NumKeys /\ keys[1] # keys[NumKeys]
     /\ LET r == MultiGetResult(snaps[s], cf, keys, 0)
        IN /\ r.items[1] = NoItem
           /\ IsDeleted(GetResult(snaps[s], cf, keys[1], 0).vs.Meta)
           /\ r.items[NumKeys] # NoItem

\* C27: no step changes the version of a memtable except from 0 to a
\* version that is not 0, so a sealed memtable keeps its version for good;
\* and a memtable is created with version 0, the placeholder TriggerFlush
\* creates, seals and sends within one call being the only one that is first
\* seen sealed.
C27_SealedOnce ==
  [][\A m \in DOMAIN memTbls' :
        IF m \in DOMAIN memTbls
        THEN \/ memTbls'[m].version = memTbls[m].version
             \/ memTbls[m].version = 0 /\ memTbls'[m].version # 0
        ELSE \/ memTbls'[m].version = 0
             \/ /\ tf.pc = "loop" /\ tf'.pc = "idle"
                /\ TableEmpty(m)'
                /\ flushLog' = Append(flushLog, [shard |-> tf.shard, tbl |-> m,
                                                 call |-> Len(trigLog)])]_vars

\* a memtable sealed by a rotation was sent again by TriggerFlush and its
\* flush result published, beside a younger memtable that is sealed too
C27_Witness ==
  \E m, n \in DOMAIN memTbls :
     /\ m < n
     /\ memTbls[m].version # 0 /\ ~TableEmpty(m)
     /\ memTbls[n].version > memTbls[m].version
     /\ \E i \in DOMAIN flushLog : flushLog[i].tbl = m /\ flushLog[i].call > 0
     /\ \E i \in DOMAIN published : published[i].tbl = m

\* the immutable memtables a TriggerFlush call found, and the number of them
\* its skip count, clamped to that number, leaves
Immutables(c) == Len(trigLog[c].mems) - 1
LeftBySkip(c) ==
  Immutables(c) - (IF trigLog[c].skipCnt > Immutables(c) THEN Immutables(c) ELSE trigLog[c].skipCnt)
\* the sends of the loop of call c: all its sends but the placeholder's
LoopSends(c) == {i \in DOMAIN flushLog : flushLog[i].call = c /\ flushLog[i].tbl \in Range(trigLog[c].mems)}

\* C28: whatever the skip count, the loop of TriggerFlush reads the memtable
\* slice within its bounds and never at the active memtable, sends only
\* immutable memtables of the slice, never more than the skip count clamped
\* to the number of immutables leaves, and exactly that many once it returned.
C28_SkipCountClamped ==
  /\ tf.pc = "loop" /\ tf.i > 0 => tf.i + 1 \in DOMAIN tf.mems /\ tf.i + 1 > 1
  /\ \A c \in DOMAIN trigLog :
        /\ \A i \in LoopSends(c) :
              \E k \in 2..Len(trigLog[c].mems) : trigLog[c].mems[k] = flushLog[i].tbl
        /\ Cardinality(LoopSends(c)) <= LeftBySkip(c)
        /\ trigLog[c].done => Cardinality(LoopSends(c)) = LeftBySkip(c)

\* a call with a skip count above the number of immutable memtables it
\* found, at least one, returned and sent none
C28_Witness ==
  \E c \in DOMAIN trigLog :
     /\ trigLog[c].done
     /\ Immutables(c) > 0
     /\ trigLog[c].skipCnt > Immutables(c)
     /\ LoopSends(c) = {}

\* the flush results whose publication has begun
Publications == Range(published) \cup (IF fr.pc = "remove" THEN {fr.task} ELSE {})
\* the records a snapshot reaches through the slices it captured
SnapRecords(s) ==
  UNION ({memTbls[m].data : m \in Range(memSlices[snaps[s].memTables])}
         \cup {tbls[t].data : t \in Range(l0Slices[snaps[s].l0Tables])})

\* C29: a snapshot holds every memtable that existed when it was created and
\* whose flush result is published or being published, or holds the L0
\* table built from it, whatever the order of its two loads and the two
\* stores of the publication was; so the records of that memtable are among
\* those the snapshot reaches.
C29_SnapshotKeepsFlushedData ==
  \A s \in DOMAIN snaps : \A r \in Publications :
     (r.shard = snaps[s].shard /\ r.tbl <= snapHist[s].top) =>
        /\ \/ r.tbl \in Range(memSlices[snaps[s].memTables])
           \/ r.l0 \in Range(l0Slices[snaps[s].l0Tables])
        /\ memTbls[r.tbl].data \subseteq SnapRecords(s)

\* a snapshot that loaded its memtable slice before a memtable with records
\* was removed from it and its L0 slice after the L0 table was prepended:
\* it holds both, and the shard holds the memtable no more
C29_Witness ==
  \E s \in DOMAIN snaps : \E r \in Range(published) :
     /\ r.shard = snaps[s].shard
     /\ ~TableEmpty(r.tbl)
     /\ r.tbl \in Range(memSlices[snaps[s].memTables])
     /\ r.l0 \in Range(l0Slices[snaps[s].l0Tables])
     /\ r.tbl \notin Range(loadMemTables(r.shard))
     /\ snapHist[s].l0Tables # l0Slices[snaps[s].l0Tables]

C31_WriteReturnsAfterDone ==
  cb.pc # "none" /\ cb.kind = "Write" =>
     /\ \A i \in DOMAIN cb.sends : cb.sends[i].by = "Done"
     /\ wr.pc = "returned" =>
           /\ cb.done # <<>> /\ wr.doneBefore
           /\ wr.resp = cb.done[1]
           /\ (wr.ret = "RaftError") <=> (GetError(cb.done[1]) # NoErr)
           /\ (wr.ret = NoErr) <=> (GetError(cb.done[1]) = NoErr)

\* a Write whose command the peer answered on proposal with no error and
\* then failed at apply has returned the RaftError
C31_Witness ==
  /\ cb.pc = "finished" /\ cb.kind = "Write"
  /\ cb.proposed = <<Response(NoErr)>>
  /\ GetError(cb.done[1]) # NoErr
  /\ wr.pc = "returned" /\ wr.ret = "RaftError"

\* C32: a send of the responder always finds room in respCh, whether or not
\* the writer has received anything; doneFn is called at most once, only by
\* Done and after the send of Done, and exactly once when Done has returned
\* on a callback that has one; on a nil callback nothing is sent or called.
C32_RespondingNeverBlocks ==
  cb.pc # "none" =>
     /\ (cb.pc = "proposing" /\ ~cb.isNil /\ cb.respOnProposed) => Len(cb.respCh) < RespChCap
     /\ (cb.pc = "applying" /\ ~cb.isNil) => Len(cb.respCh) < RespChCap
     /\ Len(cb.calls) <= 1
     /\ \A i \in DOMAIN cb.calls :
           /\ cb.calls[i].by = "Done"
           /\ cb.calls[i].sends > 0
           /\ cb.sends[cb.calls[i].sends] = [by |-> "Done", resp |-> cb.done[1]]
     /\ (cb.pc = "finished" /\ ~cb.isNil /\ cb.doneFn) => Len(cb.calls) = 1
     /\ cb.isNil => cb.sends = <<>> /\ cb.calls = <<>> /\ cb.respCh = <<>>

\* both responses of a WritePessimisticLock command were sent and doneFn
\* was called while the writer had received neither
C32_Witness ==
  /\ cb.pc = "finished" /\ cb.kind = "WritePessimisticLock"
  /\ wr.pc = "waiting"
  /\ Len(cb.respCh) = RespChCap
  /\ Len(cb.sends) = RespChCap
  /\ Len(cb.calls) = 1

\* C33: when WritePessimisticLock has returned and the response given to
\* Done carries an error, what it returned is an error.
C33_LockWriteReportsApplyError ==
  (/\ wr.pc = "returned" /\ wr.kind = "WritePessimisticLock"
   /\ cb.done # <<>> /\ GetError(cb.done[1]) # NoErr)
     => wr.ret # NoErr

\* the ids of the parents the metas of the call name
ParentsNamed == {ls.metas[id].parent.ID : id \in {i \in DOMAIN ls.metas : ~ls.metas[i].parent.isNil}}

\* C34: when a task of the main batch runs, every parent a meta names has
\* been loaded, and recovered when there is a handler, by a task of the
\* parents' batch before; that batch has one task for each parent id named;
\* when one of its tasks fails, loadShards returns the error of a failed
\* parent task and no task of the main batch ever runs; and a loadShard
\* that finds its id with its version in the shard map opens nothing,
\* fails not and leaves the map entry as it is.
C34_ParentsBeforeMainBatch ==
  ls.pc # "idle" =>
     /\ \A i \in DOMAIN ls.log :
           ls.log[i].batch = "main" =>
              \A p \in ParentsNamed :
                 \E j \in 1..(i - 1) :
                    /\ ls.log[j].batch = "parents" /\ ls.log[j].meta.ID = p
                    /\ ls.log[j].err = NoErr /\ ls.log[j].after.loaded
                    /\ ls.handler => ls.log[j].recovered
     /\ {ls.parentsBT[k].ID : k \in DOMAIN ls.parentsBT} = ParentsNamed
     /\ \A k, l \in DOMAIN ls.parentsBT : ls.parentsBT[k].ID = ls.parentsBT[l].ID => k = l
     /\ Failures("parents") # {} =>
           /\ \A i \in DOMAIN ls.log : ls.log[i].batch = "parents"
           /\ ls.pc = "returned" => ls.ret \in Failures("parents")
     /\ \A i \in DOMAIN ls.log :
           (ls.log[i].before.loaded /\ ls.log[i].before.Ver = ls.log[i].meta.Ver) =>
              /\ ~ls.log[i].opened /\ ls.log[i].err \in {NoErr, "Recover"}
              /\ ls.log[i].after = ls.log[i].before

\* loadShards returned nil on three metas, two of which name one parent:
\* two parent tasks ran, and a task of the main batch found its shard in
\* the map, loaded as a parent, and opened nothing
C34_Witness ==
  /\ ls.pc = "returned" /\ ls.ret = NoErr /\ ls.handler
  /\ DOMAIN ls.metas = MetaIDs
  /\ \A id \in MetaIDs : ~ls.metas[id].parent.isNil
  /\ Len(ls.parentsBT) < Cardinality(MetaIDs)
  /\ \E i \in DOMAIN ls.log :
        /\ ls.log[i].batch = "main" /\ ~ls.log[i].opened
        /\ ls.log[i].before.loaded /\ ls.log[i].after = ls.log[i].before

\* C35: of any two GetTS calls the later returns a pair greater than the
\* earlier's, physical first and logical second, whatever the clock did
\* between them.
C35_TimestampsIncrease ==
  \A i, j \in DOMAIN ts.log :
     i < j => \/ ts.log[i].physical < ts.log[j].physical
              \/ /\ ts.log[i].physical = ts.log[j].physical
                 /\ ts.log[i].logical < ts.log[j].logical

\* the clock went forward, back and stalled there, and forward again
C35_Witness ==
  /\ Len(ts.log) = MaxTSCalls
  /\ ts.log[1].now > 0
  /\ ts.log[2].now < ts.log[1].now /\ ts.log[2].logical > 0
  /\ ts.log[3].now = ts.log[2].now
  /\ ts.log[MaxTSCalls].now > ts.log[1].now /\ ts.log[MaxTSCalls].logical = 0

\* C36: the values stored in gcSafePoint only grow; a call whose safe point
\* is at or below the value it loaded stores nothing and returns that
\* value; when a call has returned the stored value is at or above its safe
\* point, then and ever after; and when no call is running the stored value
\* is the greatest of 0 and the safe points of all calls.
C36_GCSafePointMonotonic ==
  /\ \A i \in DOMAIN gc.stores :
        gc.stores[i] > (IF i = 1 THEN 0 ELSE gc.stores[i - 1])
  /\ gc.gcSafePoint = (IF gc.stores = <<>> THEN 0 ELSE gc.stores[Len(gc.stores)])
  /\ \A i \in DOMAIN gc.log :
        LET e == gc.log[i]
        IN /\ e.safePoint <= e.old => ~e.swapped /\ e.ret = e.old /\ e.stored = e.old
           /\ e.stored >= e.safePoint
           /\ gc.gcSafePoint >= e.safePoint
  /\ (\A p \in Callers : gc.call[p].pc = "idle") =>
        gc.gcSafePoint = Max({0} \cup {gc.log[i].safePoint : i \in DOMAIN gc.log})

\* two callers loaded the same value; the one with the lower safe point
\* swapped first, the other's swap failed and it swapped on its second turn
C36_Witness ==
  /\ Len(gc.stores) > 1
  /\ \E i, j \in DOMAIN gc.log :
        /\ i < j /\ gc.log[i].p # gc.log[j].p
        /\ gc.log[i].swapped /\ gc.log[j].swapped
        /\ gc.log[i].old = 0 /\ gc.log[j].old = gc.log[i].safePoint
        /\ gc.log[j].safePoint = MaxSafePoint /\ gc.log[j].tries > 0
  /\ \A p \in Callers : gc.call[p].pc = "idle"

\* the keys that tell the regions of the model apart
KeyPoints == 0..(MaxRawKey + 1)

\* every key lies in exactly one region of the manager
RegionsPartitionKeySpace ==
  \A k \in KeyPoints :
     Cardinality({i \in DOMAIN rm.regions : regionContainsKey(rm.regions[i], k)}) = 1

\* C37: once bootstrapped, whatever splits ran and in whatever order, every
\* key lies in exactly one region of the manager; every region a split put
\* is either a region that was there, with its start key and ConfVer kept
\* and its version raised by one, or a region under an id no region had,
\* with epoch {ConfVer 1, Version 1}.
C37_SplitsKeepPartition ==
  rm.bootstrapped =>
    /\ RegionsPartitionKeySpace
    /\ \A i \in DOMAIN rm.log :
          \A j \in DOMAIN rm.log[i].new :
             LET r == rm.log[i].new[j]
                 before == rm.log[i].before
             IN IF r.Id \in DOMAIN before
                THEN /\ r.StartKey = before[r.Id].StartKey
                     /\ r.ConfVer = before[r.Id].ConfVer
                     /\ r.Version = before[r.Id].Version + 1
                ELSE r.ConfVer = 1 /\ r.Version = 1

\* the sum of Entry.EstimateSize over a list of entries
RECURSIVE SumEstimateSize(_)
SumEstimateSize(es) == IF es = <<>> THEN 0 ELSE EstimateSize(Head(es)) + SumEstimateSize(Tail(es))

RECURSIVE SumOverCFs(_, _)
SumOverCFs(b, cfs) ==
  IF cfs = {} THEN 0
  ELSE LET cf == Min(cfs) IN SumEstimateSize(Iterate(b, cf)) + SumOverCFs(b, cfs \ {cf})

\* C38: EstimatedSize of the batch is the sum of Entry.EstimateSize (key
\* length, encoded size of the value, EstimateNodeSize) over the entries the
\* batch holds, whether Put or Delete added them, and is 0 after Reset.
C38_EstimatedSizeIsSumOfEntries ==
  /\ EstimatedSize(wb) = SumOverCFs(wb, CFs)
  /\ wbRet.op = "Reset" => EstimatedSize(wb) = 0

\* C39: a rejected Put or Delete leaves the entry lists of every CF,
\* NumEntries, EstimatedSize, the properties and the index into the entry
\* arena as they were before the call; an accepted Put or Delete leaves the
\* entry list of every other CF as it was.
C39_RejectedCallChangesNothing ==
  wbRet.op \in {"Put", "Delete"} =>
     IF wbRet.err # NoErr
     THEN /\ \A cf \in CFs : /\ wb.entries[cf] = wbRet.before.entries[cf]
                             /\ Iterate(wb, cf) = Iterate(wbRet.before, cf)
          /\ NumEntries(wb) = NumEntries(wbRet.before)
          /\ EstimatedSize(wb) = EstimatedSize(wbRet.before)
          /\ wb.properties = wbRet.before.properties
          /\ wb.entryArenaIdx = wbRet.before.entryArenaIdx
     ELSE \A cf \in CFs \ {wbRet.cf} : Iterate(wb, cf) = Iterate(wbRet.before, cf)

\* a Put was rejected on a batch that holds an entry and a property
C39_Witness ==
  /\ wbRet.op = "Put" /\ wbRet.err # NoErr
  /\ NumEntries(wb) > 0 /\ wb.entryArenaIdx > 0
  /\ "a" \in DOMAIN wb.properties
====
